---------------------------- MODULE Spec2Model ----------------------------
(***************************************************************************)
(* A model of the device-tree blob decoder (crate `device_tree`).          *)
(*                                                                         *)
(* DeviceTree::from_bytes (src/src/dtb.rs) is modelled as a state machine: *)
(* one step validates the header, then one step per structure-block token  *)
(* drives the raw tree builder, and the End token runs the typed node      *)
(* resolver (src/src/node/*.rs), which is a family of pure operators.      *)
(*                                                                         *)
(* Data representation.  The blob is a sequence of bytes (0..255).  A u32  *)
(* is kept as its 4 big-endian bytes and a u64 as its 8 big-endian bytes,  *)
(* so no width is lost; ToNat turns a u32 into a number where the code     *)
(* needs arithmetic (lengths, offsets), for values below 2^31.             *)
(* Option<T> is a sequence of length 0 or 1; Result<T, E> is a record      *)
(* [ok, err, val]; a panic (failed expect/unwrap) is the result PANIC(..), *)
(* which every caller passes on unchanged.                                 *)
(***************************************************************************)
EXTENDS Integers, Sequences, FiniteSets, TLC

VARIABLES
    dtb,          \* the input buffer of from_bytes, as bytes (a whole number of u64 words)
    pc,           \* position in from_bytes: "header", "tokens", "done"
    bytes,        \* the U32ByteSlice the token iterator still has to read
    dt_strings,   \* the strings block
    header,       \* version, last_compatible_version, boot_cpuid_phys read from the header
    properties,   \* stack of property maps, one per open node
    children,     \* stack of child lists, one per open node plus the root frame
    names,        \* stack of the open nodes' names
    device_tree,  \* the pending result of the token loop (starts Err(EoF))
    result,       \* what from_bytes returned: None while running
    seen          \* history: the kinds of the tokens handled so far

vars == <<dtb, pc, bytes, dt_strings, header, properties, children, names,
          device_tree, result, seen>>

---------------------------------------------------------------------------
(* Option, Result, panic *)

\* Let([x \in {v} |-> e]) is e with x naming the value v: `let x = v; e`
Let(f) == f[CHOOSE x \in DOMAIN f : TRUE]

None == <<>>
Some(x) == <<x>>
IsSome(o) == Len(o) = 1
IsNone(o) == Len(o) = 0
Unwrap(o) == o[1]

Ok(v) == [ok |-> TRUE, err |-> <<>>, val |-> v]
Err(e) == [ok |-> FALSE, err |-> e, val |-> <<>>]
ErrWith(e, v) == [ok |-> FALSE, err |-> e, val |-> v]
PANIC(where) == [ok |-> FALSE, err |-> <<"PANIC", where>>, val |-> <<>>]
IsPanic(r) == (~r.ok) /\ Len(r.err) >= 1 /\ r.err[1] = "PANIC"
IsErr(r) == (~r.ok) /\ ~IsPanic(r)
\* map_err: an error is wrapped, a value and a panic pass through
MapErr(r, wrap) == IF IsErr(r) THEN ErrWith(<<wrap>> \o r.err, r.val) ELSE r

---------------------------------------------------------------------------
(* Bytes and integers *)

Byte == 0..255
Zero32 == <<0, 0, 0, 0>>
Zero64 == <<0, 0, 0, 0, 0, 0, 0, 0>>

Min(a, b) == IF a <= b THEN a ELSE b
DivCeil(a, b) == (a \div b) + (IF a % b = 0 THEN 0 ELSE 1)

\* the first n elements, and what follows them
Take(s, n) == SubSeq(s, 1, n)
Drop(s, n) == SubSeq(s, n + 1, Len(s))

\* usize::try_from(u32) of 4 big-endian bytes.  The model's integers end at
\* 2^31 - 1: a larger value is kept as 2^31 - 1, which is past the end of every
\* buffer of the model, and the code only compares these values with buffer
\* lengths (the width of usize is 64 bits, so the conversion never fails)
ToNat(w) ==
    IF w[1] >= 128 THEN 2147483647
    ELSE ((w[1] * 256 + w[2]) * 256 + w[3]) * 256 + w[4]
\* the 4 big-endian bytes of a number
ToU32(n) == << (n \div 16777216) % 256, (n \div 65536) % 256, (n \div 256) % 256, n % 256 >>
\* u64::from(u32)
U64From(w) == Zero32 \o w
\* u8::try_from(u32)
U8TryFrom(w) == IF Take(w, 3) = <<0, 0, 0>> THEN Some(w[4]) ELSE None

RECURSIVE LexLess(_, _)
\* lexicographic order of two byte sequences (slice Ord, CStr Ord, and the
\* numeric order of big-endian integers of equal width)
LexLess(a, b) ==
    IF Len(b) = 0 THEN FALSE
    ELSE IF Len(a) = 0 THEN TRUE
    ELSE IF a[1] # b[1] THEN a[1] < b[1]
    ELSE LexLess(Tail(a), Tail(b))

RECURSIVE IndexOf(_, _, _)
\* position of the first element equal to x at or after position i, 0 if none
IndexOf(s, x, i) ==
    IF i > Len(s) THEN 0
    ELSE IF s[i] = x THEN i
    ELSE IndexOf(s, x, i + 1)

\* CStr::from_bytes_until_nul: the bytes before the first NUL
FromBytesUntilNul(s) ==
    Let([p \in {IndexOf(s, 0, 1)} |->
    IF p = 0 THEN None ELSE Some(Take(s, p - 1))])

AllZero(s) == \A i \in 1..Len(s) : s[i] = 0

---------------------------------------------------------------------------
(* parse.rs: U32ByteSlice.  A slice is [bytes, padding]: `bytes` holds the  *)
(* cells (4 bytes each) and `padding` counts the bytes of the last cell    *)
(* that do not belong to the data.                                         *)

ELEMENT_WIDTH == 4

SliceOf(b, p) == [bytes |-> b, padding |-> p]

len_u32s(s) == Len(s.bytes) \div ELEMENT_WIDTH
is_empty(s) == Len(s.bytes) = 0
len_bytes(s) == len_u32s(s) * ELEMENT_WIDTH - s.padding
remaining_u32s(s) ==
    IF len_u32s(s) >= (IF s.padding > 0 THEN 1 ELSE 0)
    THEN len_u32s(s) - (IF s.padding > 0 THEN 1 ELSE 0)
    ELSE 0

\* <&[u8]>::from(U32ByteSlice): the data bytes, without the padding
SliceBytes(s) == Take(s.bytes, len_bytes(s))

\* the last `padding` bytes of the last cell hold a non-zero byte
PaddingDirty(cells, padding) ==
    /\ Len(cells) > 0
    /\ \E i \in (Len(cells) - padding + 1)..Len(cells) : cells[i] # 0

\* U32ByteSlice::new(cells, length): None when the length does not fit the
\* cells or when a padding byte is not zero
U32ByteSlice_new(cells, length) ==
    IF DivCeil(length, ELEMENT_WIDTH) = Len(cells) \div ELEMENT_WIDTH
    THEN Let([padding \in {Len(cells) - length} |->
         IF PaddingDirty(cells, padding) THEN None
         ELSE Some(SliceOf(cells, padding))])
    ELSE None

\* Methods taking &mut self return [ret, self]

\* mutant of consume_u32: the cell is read and left in the slice
consume_u32_peek(s) ==
    IF remaining_u32s(s) >= 1
    THEN [ret |-> Some(Take(s.bytes, 4)), self |-> s]
    ELSE [ret |-> None, self |-> s]

\* U32ByteSlice::consume_u32
consume_u32(s) ==
    IF remaining_u32s(s) >= 1
    THEN [ret |-> Some(Take(s.bytes, 4)), self |-> SliceOf(Drop(s.bytes, 4), s.padding)]
    ELSE [ret |-> None, self |-> s]

\* mutant of consume_u64: the first cell is taken for the lower half
consume_u64_swapped(s) ==
    IF remaining_u32s(s) >= 2
    THEN [ret |-> Some(SubSeq(s.bytes, 5, 8) \o Take(s.bytes, 4)),
          self |-> SliceOf(Drop(s.bytes, 8), s.padding)]
    ELSE [ret |-> None, self |-> s]

\* U32ByteSlice::consume_u64
consume_u64(s) ==
    IF remaining_u32s(s) >= 2
    THEN [ret |-> Some(Take(s.bytes, 8)), self |-> SliceOf(Drop(s.bytes, 8), s.padding)]
    ELSE [ret |-> None, self |-> s]

\* U32ByteSlice::take(count): ret is a Result holding Option<Self>, or the
\* panic of `expect("Enough bytes should have been taken")`
take(s, count) ==
    IF count <= len_bytes(s)
    THEN Let([n \in {DivCeil(count, ELEMENT_WIDTH) * ELEMENT_WIDTH} |->
         Let([made \in {U32ByteSlice_new(Take(s.bytes, n), count)} |->
         IF IsNone(made)
         THEN [ret |-> PANIC("U32ByteSlice::take: Enough bytes should have been taken"),
               self |-> SliceOf(Drop(s.bytes, n), s.padding)]
         ELSE [ret |-> Ok(Some(Unwrap(made))),
               self |-> SliceOf(Drop(s.bytes, n), s.padding)]])])
    ELSE [ret |-> Ok(None), self |-> s]

\* U32ByteSlice::consume_c_str: the string before the first NUL; the cells it
\* spans are removed, and the bytes after the NUL up to the cell boundary must
\* be zero
consume_c_str(s) ==
    Let([found \in {FromBytesUntilNul(SliceBytes(s))} |->
    IF IsNone(found) THEN [ret |-> None, self |-> s]
    ELSE Let([c_str \in {Unwrap(found)} |->
         Let([bytes_consumed \in {Len(c_str) + 1} |->
         Let([n \in {DivCeil(bytes_consumed, ELEMENT_WIDTH) * ELEMENT_WIDTH} |->
         Let([rest \in {SliceOf(Drop(s.bytes, n), s.padding)} |->
         IF AllZero(SubSeq(s.bytes, bytes_consumed + 1, n))
         THEN [ret |-> Some(c_str), self |-> rest]
         ELSE [ret |-> None, self |-> rest]])])])])])

\* TryFrom<U32ByteSlice> for u32
U32TryFrom(s) ==
    Let([c \in {consume_u32(s)} |->
    IF is_empty(c.self)
    THEN (IF IsSome(c.ret) THEN Ok(Unwrap(c.ret)) ELSE Err(<<"Empty">>))
    ELSE Err(<<"Excess">>)])

\* TryFrom<U32ByteSlice> for u64
U64TryFrom(s) ==
    Let([c \in {consume_u64(s)} |->
    IF is_empty(c.self)
    THEN (IF IsSome(c.ret) THEN Ok(Unwrap(c.ret)) ELSE Err(<<"Empty">>))
    ELSE Err(<<"Excess">>)])

\* TryFrom<U32ByteSlice> for &CStr
CStrTryFrom(s) == FromBytesUntilNul(SliceBytes(s))

---------------------------------------------------------------------------
(* node_name.rs: names.  A NameRef is [node_name, unit_address]: the bytes  *)
(* of the node-name and an Option<u64>.                                    *)

MAX_NODE_NAME_LENGTH == 31

\* Char::is_valid
Char_is_valid(byte) ==
    \/ byte \in 48..57      \* 0-9
    \/ byte \in 97..122     \* a-z
    \/ byte \in 65..90      \* A-Z
    \/ byte \in {44, 46, 95, 43, 45}   \* , . _ + -

\* TryFrom<&[u8]> for &NameSlice
NameSlice_try_from(value) == \A i \in 1..Len(value) : Char_is_valid(value[i])

IsHexDigit(c) == c \in 48..57 \/ c \in 97..102 \/ c \in 65..70
HexValue(c) == IF c \in 48..57 THEN c - 48 ELSE IF c \in 97..102 THEN c - 87 ELSE c - 55

RECURSIVE StripZeros(_)
StripZeros(digits) ==
    IF Len(digits) > 0 /\ digits[1] = 48 THEN StripZeros(Tail(digits)) ELSE digits

\* u64::from_str_radix(text, 16): an optional '+', then one or more hex
\* digits whose value fits 64 bits; the value as 8 big-endian bytes
U64FromStrRadix16(text) ==
    Let([digits \in {IF Len(text) > 0 /\ text[1] = 43 THEN Tail(text) ELSE text} |->
    Let([sig \in {StripZeros(digits)} |->
    Let([nib \in {[i \in 1..16 |->
                    IF i <= 16 - Len(sig) THEN 0 ELSE HexValue(sig[i - (16 - Len(sig))])]} |->
    IF Len(digits) = 0 \/ (\E i \in 1..Len(digits) : ~IsHexDigit(digits[i])) THEN None
    ELSE IF Len(sig) > 16 THEN None
    ELSE Some([i \in 1..8 |-> nib[2 * i - 1] * 16 + nib[2 * i]])])])])

NameRefOf(node_name, unit_address) == [node_name |-> node_name, unit_address |-> unit_address]

\* TryFrom<&[u8]> for NameRef
NameRef_try_from(value) ==
    Let([at \in {IndexOf(value, 64, 1)} |->  \* split_once('@')
    IF at = 0
    THEN IF Len(value) <= MAX_NODE_NAME_LENGTH
         THEN IF NameSlice_try_from(value)
              THEN Ok(NameRefOf(value, None))
              ELSE Err(<<"InvalidCharacters">>)
         ELSE Err(<<"TooLong">>)
    ELSE Let([node_name \in {Take(value, at - 1)} |->
         Let([unit_address \in {Drop(value, at)} |->
         Let([comma \in {IndexOf(unit_address, 44, 1)} |->
         Let([address \in {IF comma = 0 THEN unit_address ELSE Take(unit_address, comma - 1)} |->
         Let([parsed \in {U64FromStrRadix16(address)} |->
         IF Len(node_name) <= MAX_NODE_NAME_LENGTH
         THEN IF NameSlice_try_from(node_name) /\ IsSome(parsed)
              THEN Ok(NameRefOf(node_name, parsed))
              ELSE Err(<<"InvalidCharacters">>)
         ELSE Err(<<"TooLong">>)])])])])])])

\* derived Ord of NameRef: by node_name, then by unit_address (None first)
NameLess(a, b) ==
    IF a.node_name # b.node_name THEN LexLess(a.node_name, b.node_name)
    ELSE IF IsNone(b.unit_address) THEN FALSE
    ELSE IF IsNone(a.unit_address) THEN TRUE
    ELSE LexLess(Unwrap(a.unit_address), Unwrap(b.unit_address))

\* [T]::starts_with
StartsWith(s, prefix) == Len(s) >= Len(prefix) /\ Take(s, Len(prefix)) = prefix

---------------------------------------------------------------------------
(* map.rs: Map, a vector of (key, value) pairs kept sorted by key.  `kind`  *)
(* names the key type: "name" for NameRef keys, "bytes" for CStr and       *)
(* integer keys.                                                           *)

KeyLess(kind, a, b) == IF kind = "name" THEN NameLess(a, b) ELSE LexLess(a, b)

Map_new == <<>>

RECURSIVE BinarySearch(_, _, _, _, _)
\* slice::binary_search_by_key: <<TRUE, index of a match>> or
\* <<FALSE, index where the key can be inserted>> (indices from 1)
BinarySearch(kind, contents, key, left, right) ==
    IF left >= right THEN <<FALSE, left + 1>>
    ELSE Let([mid \in {left + (right - left) \div 2} |->
         Let([k \in {contents[mid + 1][1]} |->
         IF KeyLess(kind, k, key) THEN BinarySearch(kind, contents, key, mid + 1, right)
         ELSE IF KeyLess(kind, key, k) THEN BinarySearch(kind, contents, key, left, mid)
         ELSE <<TRUE, mid + 1>>])])

\* mutant of search_for: every key is taken for a new, greatest key
search_for_append(kind, contents, key) == <<FALSE, Len(contents) + 1>>

\* Map::search_for
search_for(kind, contents, key) == BinarySearch(kind, contents, key, 0, Len(contents))

InsertAt(s, i, x) == Take(s, i - 1) \o <<x>> \o Drop(s, i - 1)
RemoveAt(s, i) == Take(s, i - 1) \o Drop(s, i)

\* mutant of Map_insert: the pair is added and a present key goes unnoticed
Map_insert_blind(kind, contents, key, value) ==
    [ret |-> None, self |-> contents \o <<<<key, value>>>>]

\* Map::insert: [ret: the old value if the key was present, self]
Map_insert(kind, contents, key, value) ==
    Let([found \in {search_for(kind, contents, key)} |->
    IF found[1]
    THEN [ret |-> Some(contents[found[2]][2]),
          self |-> [contents EXCEPT ![found[2]] = <<key, value>>]]
    ELSE [ret |-> None, self |-> InsertAt(contents, found[2], <<key, value>>)]])

\* Map::remove: [ret: the value removed, self]
Map_remove(kind, contents, key) ==
    Let([found \in {search_for(kind, contents, key)} |->
    IF found[1]
    THEN [ret |-> Some(contents[found[2]][2]), self |-> RemoveAt(contents, found[2])]
    ELSE [ret |-> None, self |-> contents]])

\* Map::get
Map_get(kind, contents, key) ==
    Let([found \in {search_for(kind, contents, key)} |->
    IF found[1] THEN Some(contents[found[2]][2]) ELSE None])

\* Map::iter: the pairs in the order they are stored
Map_iter(contents) == contents

RECURSIVE SortByKey(_, _)
\* sort by key (insertion sort: equal keys keep their order)
SortByKey(kind, pairs) ==
    IF Len(pairs) <= 1 THEN pairs
    ELSE Let([sorted \in {SortByKey(kind, Take(pairs, Len(pairs) - 1))} |->
         Let([x \in {pairs[Len(pairs)]} |->
         Let([above \in {{i \in 1..Len(sorted) : KeyLess(kind, x[1], sorted[i][1])}} |->
         Let([at \in {IF above = {} THEN Len(sorted) + 1
                   ELSE CHOOSE i \in above : \A j \in above : i <= j} |->
         InsertAt(sorted, at, x)])])])])

\* FromIterator for Map: the pairs collected and sorted by key; pairs with
\* equal keys are all kept
Map_from_iter(kind, pairs) == SortByKey(kind, pairs)

\* mutant of Map_extend_preserve: nothing of `other` is added
Map_extend_ignore(kind, contents, other) == contents

RECURSIVE Map_extend_preserve(_, _, _)
\* Map::extend_preserve: the entries of `other` whose key is absent are added
Map_extend_preserve(kind, contents, other) ==
    IF Len(other) = 0 THEN contents
    ELSE Let([found \in {search_for(kind, contents, other[1][1])} |->
         Map_extend_preserve(kind,
             IF found[1] THEN contents ELSE InsertAt(contents, found[2], other[1]),
             Tail(other))])

Keys(contents) == [i \in 1..Len(contents) |-> contents[i][1]]

---------------------------------------------------------------------------
(* dtb.rs: tokens *)

BEGIN_NODE == <<0, 0, 0, 1>>
END_NODE == <<0, 0, 0, 2>>
PROP == <<0, 0, 0, 3>>
NOP == <<0, 0, 0, 4>>
END == <<0, 0, 0, 9>>

TokenOf(kind, name, value) == [kind |-> kind, name |-> name, value |-> value]

\* Token::consume_token: [ret: Result<Token, TokenError> or a panic, self]
consume_token(stream, strings) ==
    Let([t \in {consume_u32(stream)} |->
    IF IsNone(t.ret) THEN [ret |-> Err(<<"EoF">>), self |-> t.self]
    ELSE IF Unwrap(t.ret) = BEGIN_NODE THEN
        Let([c \in {consume_c_str(t.self)} |->
        IF IsNone(c.ret) THEN [ret |-> Err(<<"NodeNameMalformed">>), self |-> c.self]
        ELSE Let([name \in {NameRef_try_from(Unwrap(c.ret))} |->
             IF name.ok
             THEN [ret |-> Ok(TokenOf("BeginNode", name.val, <<>>)), self |-> c.self]
             ELSE [ret |-> MapErr(name, "NodeNameInvalid"), self |-> c.self]])])
    ELSE IF Unwrap(t.ret) = END_NODE THEN [ret |-> Ok(TokenOf("EndNode", <<>>, <<>>)), self |-> t.self]
    ELSE IF Unwrap(t.ret) = PROP THEN
        Let([l \in {consume_u32(t.self)} |->
        Let([o \in {consume_u32(l.self)} |->
        IF IsNone(l.ret) THEN [ret |-> Err(<<"EoF">>), self |-> l.self]
        ELSE IF IsNone(o.ret) THEN [ret |-> Err(<<"EoF">>), self |-> o.self]
        ELSE Let([len \in {ToNat(Unwrap(l.ret))} |->
             Let([nameoff \in {ToNat(Unwrap(o.ret))} |->
             Let([v \in {take(o.self, len)} |->
             Let([name \in {IF nameoff <= Len(strings)
                         THEN FromBytesUntilNul(Drop(strings, nameoff))
                         ELSE None} |->
             IF IsPanic(v.ret) THEN [ret |-> v.ret, self |-> v.self]
             ELSE IF IsNone(v.ret.val) THEN [ret |-> Err(<<"PropValue">>), self |-> v.self]
             ELSE IF IsNone(name) THEN [ret |-> Err(<<"PropName">>), self |-> v.self]
             ELSE [ret |-> Ok(TokenOf("Prop", Unwrap(name), Unwrap(v.ret.val))),
                   self |-> v.self]])])])])])])
    ELSE IF Unwrap(t.ret) = NOP THEN [ret |-> Ok(TokenOf("Nop", <<>>, <<>>)), self |-> t.self]
    ELSE IF Unwrap(t.ret) = END THEN [ret |-> Ok(TokenOf("End", <<>>, <<>>)), self |-> t.self]
    ELSE [ret |-> ErrWith(<<"InvalidToken">>, Unwrap(t.ret)), self |-> t.self]])


---------------------------------------------------------------------------
(* dtb.rs: the header *)

FDT_HEADER_MAGIC == <<208, 13, 254, 237>>     \* 0xD00D_FEED, big-endian
VERSION_PARSED == 17

\* mutant of MagicOk: the magic is read as a little-endian u32
MagicLittleEndian(word) == <<word[4], word[3], word[2], word[1]>> = FDT_HEADER_MAGIC

\* `fdt_header_magic != FDT_HEADER_MAGIC`, on the first 4 bytes of the buffer
\* read as a big-endian u32
MagicOk(word) == word = FDT_HEADER_MAGIC

\* mutant of Mod4: the alignment is checked to 2 bytes
Mod2(w) == w[4] % 2

\* dt_struct_offset % 4 and dt_struct_size % 4, from the low byte of the field
Mod4(w) == w[4] % 4

\* the u32 field number i (from 0) of the header
HeaderField(d, i) == SubSeq(d, 4 * i + 1, 4 * i + 4)

HeaderOf(version, last_compatible_version, boot_cpuid_phys) ==
    [version |-> version, last_compatible_version |-> last_compatible_version,
     boot_cpuid_phys |-> boot_cpuid_phys]
NoHeader == HeaderOf(Zero32, Zero32, Zero32)

\* from_bytes up to the token loop: the checks of the header, in the order of
\* the code.  val is [dt_struct, dt_strings, header] on success.
ParseHeader(d) ==
    IF Len(d) = 0 THEN Err(<<"EoF">>)
    ELSE IF ~MagicOk(HeaderField(d, 0)) THEN Err(<<"Magic">>)
    ELSE
    Let([dt_size \in {ToNat(HeaderField(d, 1))} |->
    Let([words \in {DivCeil(dt_size, 8)} |->
    IF words > Len(d) \div 8 THEN Err(<<"EoF">>)
    ELSE
    Let([dt_bytes \in {Take(d, 8 * words)} |->
    IF Len(dt_bytes) \div 4 < 10 THEN Err(<<"EoF">>)
    ELSE IF IsNone(U32ByteSlice_new(Take(dt_bytes, 40), 40))
    THEN PANIC("from_bytes: Length should be correct")
    ELSE
    Let([dt_struct_offset \in {ToNat(HeaderField(dt_bytes, 2))} |->
    Let([dt_strings_offset \in {ToNat(HeaderField(dt_bytes, 3))} |->
    Let([version \in {HeaderField(dt_bytes, 5)} |->
    Let([last_compatible_version \in {HeaderField(dt_bytes, 6)} |->
    IF ToNat(last_compatible_version) > VERSION_PARSED
    THEN ErrWith(<<"NewerVersion">>, <<version, last_compatible_version>>)
    ELSE
    Let([boot_cpuid_phys \in {HeaderField(dt_bytes, 7)} |->
    Let([dt_strings_size \in {ToNat(HeaderField(dt_bytes, 8))} |->
    Let([dt_struct_size \in {ToNat(HeaderField(dt_bytes, 9))} |->
    IF Mod4(HeaderField(dt_bytes, 2)) # 0 \/ Mod4(HeaderField(dt_bytes, 9)) # 0
    THEN Err(<<"Alignment">>)
    ELSE
    Let([dt_struct_index \in {DivCeil(dt_struct_offset, 4)} |->
    Let([dt_struct_elems \in {DivCeil(dt_struct_size, 4)} |->
    IF dt_struct_index + dt_struct_elems > Len(dt_bytes) \div 4
    THEN ErrWith(<<"StructIndex">>, <<dt_struct_offset, dt_struct_size>>)
    ELSE
    Let([cells \in {SubSeq(dt_bytes, 4 * dt_struct_index + 1,
                           4 * (dt_struct_index + dt_struct_elems))} |->
    IF IsNone(U32ByteSlice_new(cells, dt_struct_size))
    THEN PANIC("from_bytes: Length should be correct")
    ELSE IF dt_strings_offset > Len(dt_bytes)
            \/ dt_strings_size > Len(dt_bytes) - dt_strings_offset
    THEN ErrWith(<<"StringsIndex">>, <<dt_strings_offset, dt_strings_size>>)
    ELSE Ok([dt_struct |-> Unwrap(U32ByteSlice_new(cells, dt_struct_size)),
             dt_strings |-> SubSeq(dt_bytes, dt_strings_offset + 1,
                                   dt_strings_offset + dt_strings_size),
             header |-> HeaderOf(version, last_compatible_version, boot_cpuid_phys)])
    ])])])])])])])])])])])])])


---------------------------------------------------------------------------
(* node/mod.rs: PropertyKeys, as the bytes of each key (without the NUL) *)

ADDRESS_CELLS == <<35, 97, 100, 100, 114, 101, 115, 115, 45, 99, 101, 108, 108, 115>>    \* "#address-cells"
SIZE_CELLS == <<35, 115, 105, 122, 101, 45, 99, 101, 108, 108, 115>>    \* "#size-cells"
REG == <<114, 101, 103>>    \* "reg"
RANGES == <<114, 97, 110, 103, 101, 115>>    \* "ranges"
COMPATIBLE == <<99, 111, 109, 112, 97, 116, 105, 98, 108, 101>>    \* "compatible"
CHASSIS == <<99, 104, 97, 115, 115, 105, 115, 45, 116, 121, 112, 101>>    \* "chassis-type"
MODEL == <<109, 111, 100, 101, 108>>    \* "model"
STATUS == <<115, 116, 97, 116, 117, 115>>    \* "status"
DEVICE_TYPE == <<100, 101, 118, 105, 99, 101, 95, 116, 121, 112, 101>>    \* "device_type"
SERIAL_NUMBER == <<115, 101, 114, 105, 97, 108, 45, 110, 117, 109, 98, 101, 114>>    \* "serial-number"
REUSABLE == <<114, 101, 117, 115, 97, 98, 108, 101>>    \* "reusable"
SIZE == <<115, 105, 122, 101>>    \* "size"
ALIGNMENT == <<97, 108, 105, 103, 110, 109, 101, 110, 116>>    \* "alignment"
NO_MAP == <<110, 111, 45, 109, 97, 112>>    \* "no-map"
ALLOC_RANGES == <<97, 108, 108, 111, 99, 45, 114, 97, 110, 103, 101, 115>>    \* "alloc-ranges"
HOTPLUGGABLE == <<104, 111, 116, 112, 108, 117, 103, 103, 97, 98, 108, 101>>    \* "hotpluggable"
PHANDLE == <<112, 104, 97, 110, 100, 108, 101>>    \* "phandle"
CACHE_LEVEL == <<99, 97, 99, 104, 101, 45, 108, 101, 118, 101, 108>>    \* "cache-level"
CPU_RELEASE_ADDR == <<99, 112, 117, 45, 114, 101, 108, 101, 97, 115, 101, 45, 97, 100, 100, 114>>    \* "cpu-release-addr"
CACHE_UNIFIED == <<99, 97, 99, 104, 101, 45, 117, 110, 105, 102, 105, 101, 100>>    \* "cache-unified"
NEXT_LEVEL_CACHE == <<110, 101, 120, 116, 45, 108, 101, 118, 101, 108, 45, 99, 97, 99, 104, 101>>    \* "next-level-cache"
ENABLE_METHOD == <<101, 110, 97, 98, 108, 101, 45, 109, 101, 116, 104, 111, 100>>    \* "enable-method"
STDOUT_PATH == <<115, 116, 100, 111, 117, 116, 45, 112, 97, 116, 104>>    \* "stdout-path"

\* byte strings the resolver compares with
STR_cpu == <<99, 112, 117>>    \* "cpu"
STR_cache == <<99, 97, 99, 104, 101>>    \* "cache"
STR_memory_nul == <<109, 101, 109, 111, 114, 121, 0>>    \* "memory\0"
STR_okay == <<111, 107, 97, 121>>    \* "okay"
STR_disabled == <<100, 105, 115, 97, 98, 108, 101, 100>>    \* "disabled"
STR_reserved == <<114, 101, 115, 101, 114, 118, 101, 100>>    \* "reserved"
STR_fail == <<102, 97, 105, 108>>    \* "fail"
STR_spin_table == <<115, 112, 105, 110, 45, 116, 97, 98, 108, 101>>    \* "spin-table"
STR_shared_dma_pool == <<115, 104, 97, 114, 101, 100, 45, 100, 109, 97, 45, 112, 111, 111, 108>>    \* "shared-dma-pool"
STR_cache_size == <<99, 97, 99, 104, 101, 45, 115, 105, 122, 101>>    \* "cache-size"
STR_cache_sets == <<99, 97, 99, 104, 101, 45, 115, 101, 116, 115>>    \* "cache-sets"
STR_cache_block_size == <<99, 97, 99, 104, 101, 45, 98, 108, 111, 99, 107, 45, 115, 105, 122, 101>>    \* "cache-block-size"
STR_cache_line_size == <<99, 97, 99, 104, 101, 45, 108, 105, 110, 101, 45, 115, 105, 122, 101>>    \* "cache-line-size"
STR_i == <<105, 45>>    \* "i-"
STR_d == <<100, 45>>    \* "d-"

\* root.rs: NodeNames
NodeNames_cpus == NameRefOf(<<99, 112, 117, 115>>, None)    \* "cpus"
NodeNames_reserved_memory == NameRefOf(<<114, 101, 115, 101, 114, 118, 101, 100, 45, 109, 101, 109, 111, 114, 121>>, None)    \* "reserved-memory"
NodeNames_aliases == NameRefOf(<<97, 108, 105, 97, 115, 101, 115>>, None)    \* "aliases"
NodeNames_cpu_prefix == STR_cpu
NodeNames_memory == <<109, 101, 109, 111, 114, 121>>    \* "memory"

---------------------------------------------------------------------------
(* parse.rs: cells.  A u64 is its 8 big-endian bytes. *)

RECURSIVE DiscardCells(_, _)
\* the loop `for _ in 2..count { self.consume_u32() }` of consume_cells
DiscardCells(s, n) == IF n <= 0 THEN s ELSE DiscardCells(consume_u32(s).self, n - 1)

\* U32ByteSlice::consume_cells
consume_cells(s, cell_count) ==
    IF cell_count = 0 THEN [ret |-> Some(Zero64), self |-> s]
    ELSE IF cell_count = 1
    THEN Let([c \in {consume_u32(s)} |->
         [ret |-> IF IsSome(c.ret) THEN Some(U64From(Unwrap(c.ret))) ELSE None,
          self |-> c.self]])
    ELSE IF cell_count = 2 THEN consume_u64(s)
    ELSE Let([c \in {consume_u64(s)} |->
         [ret |-> c.ret, self |-> DiscardCells(c.self, cell_count - 2)]])

\* U32ByteSlice::into_cells
into_cells(s, cell_count) ==
    Let([c \in {consume_cells(s, cell_count)} |->
    IF IsSome(c.ret) /\ is_empty(c.self) THEN c.ret ELSE None])

RECURSIVE SumSeq(_)
SumSeq(s) == IF Len(s) = 0 THEN 0 ELSE s[1] + SumSeq(Tail(s))

RECURSIVE ConsumeGroup(_, _)
\* one cell group: consume_cells for each count; ret is None where the
\* `expect("Length should have been properly checked already")` would fail
ConsumeGroup(s, cell_counts) ==
    IF Len(cell_counts) = 0 THEN [ret |-> Some(<<>>), self |-> s]
    ELSE Let([c \in {consume_cells(s, cell_counts[1])} |->
         Let([rest \in {ConsumeGroup(c.self, Tail(cell_counts))} |->
         IF IsNone(c.ret) \/ IsNone(rest.ret) THEN [ret |-> None, self |-> s]
         ELSE [ret |-> Some(<<Unwrap(c.ret)>> \o Unwrap(rest.ret)), self |-> rest.self]])])

RECURSIVE ConsumeGroups(_, _)
\* the loop `while !self.is_empty()` of into_cells_slice
ConsumeGroups(s, cell_counts) ==
    IF is_empty(s) THEN Ok(<<>>)
    ELSE Let([g \in {ConsumeGroup(s, cell_counts)} |->
         IF IsNone(g.ret)
         THEN PANIC("into_cells_slice: Length should have been properly checked already")
         ELSE Let([rest \in {ConsumeGroups(g.self, cell_counts)} |->
              IF rest.ok THEN Ok(<<Unwrap(g.ret)>> \o rest.val) ELSE rest])])

\* mutant of into_cells_slice: the length of the buffer is not checked
into_cells_slice_unchecked(s, cell_counts) ==
    IF s.padding # 0 THEN Ok(None)
    ELSE IF Len(cell_counts) = 0
    THEN PANIC("into_cells_slice: There should be a nonzero number of cells")
    ELSE IF SumSeq(cell_counts) = 0 THEN (IF is_empty(s) THEN Ok(Some(<<>>)) ELSE Ok(None))
    ELSE Let([groups \in {ConsumeGroups(s, cell_counts)} |->
         IF groups.ok THEN Ok(Some(groups.val)) ELSE groups])

\* U32ByteSlice::into_cells_slice: a Result holding the Option<list of groups>
into_cells_slice(s, cell_counts) ==
    IF s.padding # 0 THEN Ok(None)
    ELSE IF Len(cell_counts) = 0
    THEN PANIC("into_cells_slice: There should be a nonzero number of cells")
    ELSE Let([total_length \in {SumSeq(cell_counts)} |->
         IF total_length # 0
         THEN IF len_u32s(s) % total_length # 0 THEN Ok(None)
              ELSE Let([groups \in {ConsumeGroups(s, cell_counts)} |->
                   IF groups.ok THEN Ok(Some(groups.val)) ELSE groups])
         ELSE IF is_empty(s) THEN Ok(Some(<<>>)) ELSE Ok(None)])


---------------------------------------------------------------------------
(* property.rs *)

\* Status::try_from(&[u8])
Status_try_from(value) ==
    Let([found \in {FromBytesUntilNul(value)} |->
    IF IsNone(found) THEN Err(<<"Status">>)
    ELSE Let([string \in {Unwrap(found)} |->
         IF StartsWith(string, STR_fail) THEN Ok(<<"Fail", Drop(string, 4)>>)
         ELSE IF string = STR_okay THEN Ok(<<"Ok">>)
         ELSE IF string = STR_disabled THEN Ok(<<"Disabled">>)
         ELSE IF string = STR_reserved THEN Ok(<<"Reserved">>)
         ELSE Err(<<"Status">>)])])

\* parse::parse_str: the string before the first NUL
parse_str(value) == FromBytesUntilNul(value)

RECURSIVE parse_model_list(_)
\* property::parse_model_list: the non-empty NUL-terminated strings of the
\* value, in order; None when bytes without a NUL are left over
parse_model_list(value) ==
    IF Len(value) = 0 THEN Some(<<>>)
    ELSE Let([model \in {parse_str(value)} |->
         IF IsNone(model) THEN None
         ELSE Let([rest \in {parse_model_list(Drop(value, Len(Unwrap(model)) + 1))} |->
              IF IsNone(rest) THEN None
              ELSE IF Len(Unwrap(model)) = 0 THEN rest
              ELSE Some(<<Unwrap(model)>> \o Unwrap(rest))])])

\* TryFrom<U32ByteSlice> for Box<[Model]>
ModelList_try_from(s) == parse_model_list(SliceBytes(s))

---------------------------------------------------------------------------
(* node/mod.rs: RawNode.  A raw node is [children, properties]: children    *)
(* is a Map from NameRef to RawNode and properties a Map from the key      *)
(* bytes to the value slice.                                               *)

RawNodeOf(kids, props) == [children |-> kids, properties |-> props]

\* RawNode::new: the children are collected into a Map
RawNode_new(kids, props) == RawNodeOf(Map_from_iter("name", kids), props)

\* parse_cells of extract_cell_counts: one u32 that fits a u8
parse_cells(s) ==
    Let([v \in {U32TryFrom(s)} |->
    IF v.ok /\ IsSome(U8TryFrom(v.val)) THEN Ok(Unwrap(U8TryFrom(v.val)))
    ELSE Err(<<"Invalid">>)])

\* mutant of extract_cell_counts: an absent #size-cells counts as 0
extract_cell_counts_zero(value) ==
    Let([a \in {Map_remove("bytes", value.properties, ADDRESS_CELLS)} |->
    Let([s \in {Map_remove("bytes", a.self, SIZE_CELLS)} |->
    [addr |-> IF IsSome(a.ret) THEN parse_cells(Unwrap(a.ret)) ELSE Ok(2),
     size |-> IF IsSome(s.ret) THEN parse_cells(Unwrap(s.ret)) ELSE Ok(0),
     self |-> RawNodeOf(value.children, s.self)]])])

\* RawNode::extract_cell_counts: [addr, size, self]
extract_cell_counts(value) ==
    Let([a \in {Map_remove("bytes", value.properties, ADDRESS_CELLS)} |->
    Let([s \in {Map_remove("bytes", a.self, SIZE_CELLS)} |->
    [addr |-> IF IsSome(a.ret) THEN parse_cells(Unwrap(a.ret)) ELSE Ok(2),
     size |-> IF IsSome(s.ret) THEN parse_cells(Unwrap(s.ret)) ELSE Ok(1),
     self |-> RawNodeOf(value.children, s.self)]])])

\* Result<u8, _>::ok()
OkOpt(r) == IF r.ok THEN Some(r.val) ELSE None

\* a call threading the phandle table returns [ret, phandles]
WithPHandles(r, phandles) == [ret |-> r, phandles |-> phandles]

RECURSIVE DeviceNode_new(_, _, _, _)
RECURSIVE CollectChildren(_, _, _, _)

\* the iterator of into_components / into_components_from_cells: the children
\* in map order, each made a device node, up to the first failure (try_collect)
CollectChildren(kids, address_cells, size_cells, phandles) ==
    IF Len(kids) = 0 THEN WithPHandles(Ok(<<>>), phandles)
    ELSE Let([first \in {DeviceNode_new(kids[1][2], address_cells, size_cells, phandles)} |->
         IF ~first.ret.ok THEN first
         ELSE Let([rest \in {CollectChildren(Tail(kids), address_cells, size_cells,
                                          first.phandles)} |->
              IF ~rest.ret.ok THEN rest
              ELSE WithPHandles(Ok(<<<<kids[1][1], first.ret.val>>>> \o rest.ret.val),
                                rest.phandles)])])

\* RawNode::into_components_from_cells: [properties, children, phandles]
into_components_from_cells(value, address_cells, size_cells, phandles) ==
    Let([made \in {CollectChildren(value.children, address_cells, size_cells, phandles)} |->
    [properties |-> value.properties,
     children |-> IF made.ret.ok THEN Ok(Map_from_iter("name", made.ret.val))
                  ELSE MapErr(made.ret, "Child"),
     phandles |-> made.phandles]])

\* RawNode::into_components: [properties, children, phandles]
into_components(value, phandles) ==
    Let([cells \in {extract_cell_counts(value)} |->
    IF ~cells.addr.ok \/ ~cells.size.ok
    THEN [properties |-> cells.self.properties, children |-> Err(<<"Cells">>),
          phandles |-> phandles]
    ELSE into_components_from_cells(cells.self, OkOpt(cells.addr), OkOpt(cells.size),
                                    phandles)])

---------------------------------------------------------------------------
(* node/device.rs *)

DeviceNodeOf(kids, compatible, model, reg, ranges, status, props) ==
    [children |-> kids, compatible |-> compatible, model |-> model, reg |-> reg,
     ranges |-> ranges, status |-> status, properties |-> props]

\* device::Node::new.  A failure of a child, at any depth below, reaches the
\* `unwrap()` on the children and is a panic.  The properties that
\* PartialInterruptDevice::extract_from_properties takes stay in `properties`.
DeviceNode_new(value, address_cells, size_cells, phandles) ==
    Let([cells \in {extract_cell_counts(value)} |->
    Let([p_reg \in {Map_remove("bytes", cells.self.properties, REG)} |->
    Let([reg \in {IF IsNone(p_reg.ret) THEN Ok(None)
               ELSE IF IsNone(address_cells) \/ IsNone(size_cells) THEN Err(<<"Reg">>)
               ELSE Let([r \in {into_cells_slice(Unwrap(p_reg.ret),
                                              <<Unwrap(address_cells), Unwrap(size_cells)>>)} |->
                    IF r.ok /\ IsNone(r.val) THEN Err(<<"Reg">>) ELSE r])} |->
    Let([p_compatible \in {Map_remove("bytes", p_reg.self, COMPATIBLE)} |->
    Let([compatible \in {IF IsNone(p_compatible.ret) THEN Ok(None)
                      ELSE IF IsNone(ModelList_try_from(Unwrap(p_compatible.ret)))
                      THEN Err(<<"Compatible">>)
                      ELSE Ok(ModelList_try_from(Unwrap(p_compatible.ret)))} |->
    Let([p_model \in {Map_remove("bytes", p_compatible.self, MODEL)} |->
    Let([model \in {IF IsNone(p_model.ret) THEN Ok(None)
                 ELSE IF IsNone(CStrTryFrom(Unwrap(p_model.ret))) THEN Err(<<"Model">>)
                 ELSE Ok(CStrTryFrom(Unwrap(p_model.ret)))} |->
    Let([p_ranges \in {Map_remove("bytes", p_model.self, RANGES)} |->
    Let([ranges \in {IF IsNone(p_ranges.ret) THEN Ok(None)
                  ELSE IF ~cells.addr.ok \/ IsNone(address_cells) \/ ~cells.size.ok
                  THEN Err(<<"Ranges">>)
                  ELSE Let([r \in {into_cells_slice(Unwrap(p_ranges.ret),
                                   <<cells.addr.val, Unwrap(address_cells), cells.size.val>>)} |->
                       IF r.ok /\ IsNone(r.val) THEN Err(<<"Ranges">>) ELSE r])} |->
    Let([p_status \in {Map_remove("bytes", p_ranges.self, STATUS)} |->
    Let([status \in {IF IsNone(p_status.ret) THEN Ok(<<"Ok">>)
                  ELSE Status_try_from(SliceBytes(Unwrap(p_status.ret)))} |->
    Let([p_phandle \in {Map_remove("bytes", p_status.self, PHANDLE)} |->
    Let([phandle \in {IF IsNone(p_phandle.ret) THEN Ok(None)
                   ELSE IF U32TryFrom(Unwrap(p_phandle.ret)).ok
                   THEN Ok(Some(U32TryFrom(Unwrap(p_phandle.ret)).val))
                   ELSE Err(<<"BadPHandle">>)} |->
    Let([parts \in {into_components_from_cells(RawNodeOf(cells.self.children, p_phandle.self),
                                            OkOpt(cells.addr), OkOpt(cells.size), phandles)} |->
    Let([node \in {DeviceNodeOf(parts.children.val, compatible.val, model.val, reg.val,
                             ranges.val, status.val, parts.properties)} |->
    IF ~reg.ok THEN WithPHandles(reg, phandles)
    ELSE IF ~compatible.ok THEN WithPHandles(compatible, phandles)
    ELSE IF ~model.ok THEN WithPHandles(model, phandles)
    ELSE IF ~ranges.ok THEN WithPHandles(ranges, phandles)
    ELSE IF ~status.ok THEN WithPHandles(status, phandles)
    ELSE IF ~phandle.ok THEN WithPHandles(phandle, phandles)
    ELSE IF IsPanic(parts.children) THEN WithPHandles(parts.children, parts.phandles)
    ELSE IF ~parts.children.ok
    THEN WithPHandles(PANIC("device::Node::new: unwrap of the children"), parts.phandles)
    ELSE IF IsNone(phandle.val) THEN WithPHandles(Ok(node), parts.phandles)
    ELSE Let([inserted \in {Map_insert("bytes", parts.phandles, Unwrap(phandle.val), node)} |->
         IF IsSome(inserted.ret)
         THEN WithPHandles(Err(<<"DuplicatePHandle">>), inserted.self)
         ELSE WithPHandles(Ok(node), inserted.self)])])])])])])])])])])])])])])])])

---------------------------------------------------------------------------
(* node/cache.rs *)

\* the `.and_then(|value| value.try_into().ok()).and_then(NonZeroU32::new)`
\* of Description::from_prefix
NonZeroU32Of(found) ==
    IF IsSome(found) /\ U32TryFrom(Unwrap(found)).ok /\ U32TryFrom(Unwrap(found)).val # Zero32
    THEN Some(U32TryFrom(Unwrap(found)).val)
    ELSE None

\* cache_description!(properties, prefix): [ret, self]
cache_description(props, prefix) ==
    Let([p_size \in {Map_remove("bytes", props, prefix \o STR_cache_size)} |->
    Let([p_sets \in {Map_remove("bytes", p_size.self, prefix \o STR_cache_sets)} |->
    Let([p_block \in {Map_remove("bytes", p_sets.self, prefix \o STR_cache_block_size)} |->
    Let([p_line \in {Map_remove("bytes", p_block.self, prefix \o STR_cache_line_size)} |->
    [ret |-> [size |-> NonZeroU32Of(p_size.ret), sets |-> NonZeroU32Of(p_sets.ret),
              block_size |-> NonZeroU32Of(p_block.ret),
              line_size |-> NonZeroU32Of(p_line.ret)],
     self |-> p_line.self]])])])])

\* HigherLevel::new: ret holds <<phandle, cache>>.  The phandle of the cache is
\* returned to the caller; it is not entered into `phandles`.
HigherLevel_new(value, phandles) ==
    Let([p_compatible \in {Map_remove("bytes", value.properties, COMPATIBLE)} |->
    Let([p_phandle \in {Map_remove("bytes", p_compatible.self, PHANDLE)} |->
    Let([p_level \in {Map_remove("bytes", p_phandle.self, CACHE_LEVEL)} |->
    Let([cache \in {cache_description(p_level.self, <<>>)} |->
    Let([parts \in {into_components(RawNodeOf(value.children, cache.self), phandles)} |->
    IF ~(/\ IsSome(p_compatible.ret)
         /\ CStrTryFrom(Unwrap(p_compatible.ret)) = Some(STR_cache))
    THEN WithPHandles(Err(<<"BadType">>), phandles)
    ELSE IF ~(IsSome(p_phandle.ret) /\ U32TryFrom(Unwrap(p_phandle.ret)).ok)
    THEN WithPHandles(Err(<<"PHandle">>), phandles)
    ELSE IF ~(IsSome(p_level.ret) /\ U32TryFrom(Unwrap(p_level.ret)).ok)
    THEN WithPHandles(Err(<<"Level">>), phandles)
    ELSE IF ~parts.children.ok THEN WithPHandles(parts.children, parts.phandles)
    ELSE WithPHandles(
            Ok(<<U32TryFrom(Unwrap(p_phandle.ret)).val,
                 [cache |-> cache.ret, level |-> U32TryFrom(Unwrap(p_level.ret)).val,
                  children |-> parts.children.val, properties |-> parts.properties]>>),
            parts.phandles)])])])])])

\* L1::extract_from: [ret, self]
L1_extract_from(props) ==
    Let([p_unified \in {Map_remove("bytes", props, CACHE_UNIFIED)} |->
    Let([unified \in {cache_description(p_unified.self, <<>>)} |->
    Let([icache \in {cache_description(p_unified.self, STR_i)} |->
    Let([dcache \in {cache_description(icache.self, STR_d)} |->
    IF IsSome(p_unified.ret)
    THEN [ret |-> [unified |-> TRUE, descriptions |-> <<unified.ret>>],
          self |-> unified.self]
    ELSE [ret |-> [unified |-> FALSE, descriptions |-> <<icache.ret, dcache.ret>>],
          self |-> dcache.self]])])])])

---------------------------------------------------------------------------
(* property.rs: EnableType;  node/cpu.rs *)

RECURSIVE CountOf(_, _)
CountOf(s, x) == IF Len(s) = 0 THEN 0 ELSE (IF s[1] = x THEN 1 ELSE 0) + CountOf(Tail(s), x)

\* EnableType::extract_from_properties: [ret, self]
EnableType_extract_from_properties(props) ==
    Let([p_method \in {Map_remove("bytes", props, ENABLE_METHOD)} |->
    IF IsNone(p_method.ret) THEN [ret |-> Err(<<"NotPresent">>), self |-> p_method.self]
    ELSE
    Let([method \in {CStrTryFrom(Unwrap(p_method.ret))} |->
    IF IsNone(method) THEN [ret |-> Err(<<"Invalid">>), self |-> p_method.self]
    ELSE IF Unwrap(method) = STR_spin_table
    THEN Let([p_release \in {Map_remove("bytes", p_method.self, CPU_RELEASE_ADDR)} |->
         IF IsSome(p_release.ret) /\ U64TryFrom(Unwrap(p_release.ret)).ok
         THEN [ret |-> Ok(<<"SpinTable", U64TryFrom(Unwrap(p_release.ret)).val>>),
               self |-> p_release.self]
         ELSE [ret |-> Err(<<"NoReleaseAddr">>), self |-> p_release.self]])
    ELSE Let([string \in {Unwrap(method)} |->
         Let([comma \in {IndexOf(string, 44, 1)} |->
         IF CountOf(string, 44) = 1
         THEN [ret |-> Ok(<<"VendorSpecific", Take(string, comma - 1), Drop(string, comma)>>),
               self |-> p_method.self]
         ELSE [ret |-> Err(<<"Invalid">>), self |-> p_method.self]])])
    ])])

\* cpu::Node::new(value, base, cache_handles, address_cells): a Result
CpuNode_new(value, base, cache_handles, address_cells) ==
    Let([merged \in {Map_extend_preserve("bytes", value.properties, base)} |->
    Let([p_type \in {Map_remove("bytes", merged, DEVICE_TYPE)} |->
    IF ~(/\ IsSome(p_type.ret)
         /\ CStrTryFrom(Unwrap(p_type.ret)) = Some(STR_cpu))
    THEN Err(<<"DeviceType">>)
    ELSE
    Let([method \in {EnableType_extract_from_properties(p_type.self)} |->
    IF ~method.ret.ok /\ method.ret.err = <<"NoReleaseAddr">> THEN Err(<<"ReleaseAddr">>)
    ELSE IF ~method.ret.ok /\ method.ret.err = <<"Invalid">> THEN Err(<<"EnableMethod">>)
    ELSE
    Let([p_status \in {Map_remove("bytes", method.self, STATUS)} |->
    Let([state \in {IF IsSome(p_status.ret) THEN CStrTryFrom(Unwrap(p_status.ret)) ELSE None} |->
    IF IsSome(p_status.ret) /\ state = Some(STR_disabled) /\ ~method.ret.ok
    THEN Err(<<"EnableMethod">>)
    ELSE IF IsSome(p_status.ret) /\ state \notin {Some(STR_okay), Some(STR_disabled),
                                                   Some(STR_fail)}
    THEN Err(<<"Status">>)
    ELSE
    Let([cache \in {L1_extract_from(p_status.self)} |->
    Let([p_next \in {Map_remove("bytes", cache.self, NEXT_LEVEL_CACHE)} |->
    Let([next_cache \in {IF IsNone(p_next.ret) THEN Ok(None)
                         ELSE Let([handle \in {U32TryFrom(Unwrap(p_next.ret))} |->
                              IF handle.ok /\ IsSome(Map_get("bytes", cache_handles, handle.val))
                              THEN Ok(Map_get("bytes", cache_handles, handle.val))
                              ELSE Err(<<"NextLevelCache">>)])} |->
    IF ~next_cache.ok THEN next_cache
    ELSE
    Let([p_reg \in {Map_remove("bytes", p_next.self, REG)} |->
    IF IsNone(p_reg.ret) THEN Err(<<"Reg">>)
    ELSE IF address_cells # 1
    THEN PANIC("cpu::Node::new: Only 32-bit CPU IDs are currently supported")
    ELSE IF ~U32TryFrom(Unwrap(p_reg.ret)).ok THEN Err(<<"Reg">>)
    ELSE Ok([reg |-> U32TryFrom(Unwrap(p_reg.ret)).val,
             enable_method |-> OkOpt(method.ret),
             l1_cache |-> cache.ret,
             next_cache |-> next_cache.val,
             status |-> IF IsNone(p_status.ret) \/ state = Some(STR_okay) THEN "Okay"
                        ELSE IF state = Some(STR_disabled) THEN "Disabled" ELSE "Fail",
             properties |-> p_reg.self])
    ])])])])])])])])])

---------------------------------------------------------------------------
(* node/reserved_memory.rs *)

\* lib.rs: split_at_first
split_at_first(slice, value) ==
    Let([at \in {IndexOf(slice, value, 1)} |->
    IF at = 0 THEN None ELSE Some(<<Take(slice, at - 1), Drop(slice, at)>>)])

\* TryFrom<&CStr> for reserved_memory::Compatible
Compatible_try_from(value) ==
    IF value = STR_shared_dma_pool THEN Ok(<<"SharedDmaPool">>)
    ELSE Let([first \in {split_at_first(value, 44)} |->
         IF IsNone(first) THEN Err(<<"Compatible">>)
         ELSE Let([second \in {split_at_first(Unwrap(first)[2], 45)} |->
              IF IsNone(second)
              THEN Ok(<<"VendorSpecific", Unwrap(first)[1], None, Unwrap(first)[2]>>)
              ELSE Ok(<<"VendorSpecific", Unwrap(first)[1], Some(Unwrap(second)[1]),
                        Unwrap(second)[2]>>)])])

RECURSIVE ConsumePairs(_, _, _)
\* the loop `while !reg.is_empty()` pushing (address, size): None when a
\* consume_cells fails
ConsumePairs(s, address_cells, size_cells) ==
    IF is_empty(s) THEN Some(<<>>)
    ELSE Let([start \in {consume_cells(s, address_cells)} |->
         IF IsNone(start.ret) THEN None
         ELSE Let([size \in {consume_cells(start.self, size_cells)} |->
              IF IsNone(size.ret) THEN None
              ELSE Let([rest \in {ConsumePairs(size.self, address_cells, size_cells)} |->
                   IF IsNone(rest) THEN None
                   ELSE Some(<<<<Unwrap(start.ret), Unwrap(size.ret)>>>> \o Unwrap(rest))])])])

\* the `.map(..).transpose()?` of an optional property decoded by into_cells
OptCells(found, cell_count) ==
    IF IsNone(found) THEN Ok(None)
    ELSE IF IsNone(into_cells(Unwrap(found), cell_count)) THEN Err(<<"Cells">>)
    ELSE Ok(into_cells(Unwrap(found), cell_count))

\* the same for a list of (address, size) pairs
OptPairs(found, address_cells, size_cells) ==
    IF IsNone(found) THEN Ok(None)
    ELSE IF IsNone(ConsumePairs(Unwrap(found), address_cells, size_cells))
    THEN Err(<<"Cells">>)
    ELSE Ok(ConsumePairs(Unwrap(found), address_cells, size_cells))

\* reserved_memory::Node::new
ReservedNode_new(value, address_cells, size_cells, phandles) ==
    Let([p_size \in {Map_remove("bytes", value.properties, SIZE)} |->
    Let([size \in {OptCells(p_size.ret, size_cells)} |->
    Let([p_alignment \in {Map_remove("bytes", p_size.self, ALIGNMENT)} |->
    Let([alignment \in {OptCells(p_alignment.ret, size_cells)} |->
    Let([p_reg \in {Map_remove("bytes", p_alignment.self, REG)} |->
    Let([regs \in {OptPairs(p_reg.ret, address_cells, size_cells)} |->
    Let([p_no_map \in {Map_remove("bytes", p_reg.self, NO_MAP)} |->
    Let([p_reusable \in {Map_remove("bytes", p_no_map.self, REUSABLE)} |->
    Let([p_alloc \in {Map_remove("bytes", p_reusable.self, ALLOC_RANGES)} |->
    Let([alloc \in {OptPairs(p_alloc.ret, address_cells, size_cells)} |->
    Let([alloc_ranges \in {IF alloc.ok /\ IsSome(alloc.val)
                        THEN Some(SortByKey("bytes", Unwrap(alloc.val))) ELSE None} |->
    Let([p_compatible \in {Map_remove("bytes", p_alloc.self, COMPATIBLE)} |->
    Let([compatible \in {IF IsNone(p_compatible.ret) THEN Ok(None)
                      ELSE IF IsNone(CStrTryFrom(Unwrap(p_compatible.ret)))
                      THEN Err(<<"Compatible">>)
                      ELSE Let([c \in {Compatible_try_from(Unwrap(CStrTryFrom(Unwrap(p_compatible.ret))))} |->
                           IF c.ok THEN Ok(Some(c.val)) ELSE c])} |->
    Let([parts \in {into_components(RawNodeOf(value.children, p_compatible.self), phandles)} |->
    IF ~size.ok THEN WithPHandles(size, phandles)
    ELSE IF ~alignment.ok THEN WithPHandles(alignment, phandles)
    ELSE IF ~regs.ok THEN WithPHandles(regs, phandles)
    ELSE IF IsSome(p_no_map.ret) /\ IsSome(p_reusable.ret)
    THEN WithPHandles(Err(<<"Usage">>), phandles)
    ELSE IF ~alloc.ok THEN WithPHandles(alloc, phandles)
    ELSE IF ~compatible.ok THEN WithPHandles(compatible, phandles)
    ELSE IF ~parts.children.ok THEN WithPHandles(parts.children, parts.phandles)
    ELSE IF IsNone(regs.val) /\ IsNone(size.val)
    THEN WithPHandles(Err(<<"InvalidMemory">>), parts.phandles)
    ELSE WithPHandles(
            Ok([memory |-> IF IsSome(regs.val) THEN <<"Static", Unwrap(regs.val)>>
                           ELSE <<"Dynamic", Unwrap(size.val), alignment.val, alloc_ranges>>,
                usage |-> IF IsSome(p_no_map.ret) THEN "NoMap"
                          ELSE IF IsSome(p_reusable.ret) THEN "Reusable" ELSE "Other",
                compatible |-> compatible.val,
                properties |-> parts.properties,
                children |-> parts.children.val]),
            parts.phandles)])])])])])])])])])])])])])])

RECURSIVE CollectReserved(_, _, _, _)
\* root.rs: the iterator over the children of /reserved-memory, up to the
\* first failure
CollectReserved(kids, address_cells, size_cells, phandles) ==
    IF Len(kids) = 0 THEN WithPHandles(Ok(<<>>), phandles)
    ELSE Let([first \in {ReservedNode_new(kids[1][2], address_cells, size_cells, phandles)} |->
         IF ~first.ret.ok THEN first
         ELSE Let([rest \in {CollectReserved(Tail(kids), address_cells, size_cells,
                                          first.phandles)} |->
              IF ~rest.ret.ok THEN rest
              ELSE WithPHandles(Ok(<<<<kids[1][1], first.ret.val>>>> \o rest.ret.val),
                                rest.phandles)])])

---------------------------------------------------------------------------
(* node/memory_region.rs *)

RECURSIVE ConsumeRegions(_, _, _, _)
\* the loop of MemoryRegion::new: every pair is checked against the
\* unit-address of the node
ConsumeRegions(s, name, address_cells, size_cells) ==
    IF is_empty(s) THEN Some(<<>>)
    ELSE Let([start \in {consume_cells(s, address_cells)} |->
         IF IsNone(start.ret) THEN None
         ELSE Let([size \in {consume_cells(start.self, size_cells)} |->
              IF IsNone(size.ret) THEN None
              ELSE IF IsSome(name.unit_address) /\ Unwrap(name.unit_address) # Unwrap(start.ret)
              THEN None
              ELSE Let([rest \in {ConsumeRegions(size.self, name, address_cells, size_cells)} |->
                   IF IsNone(rest) THEN None
                   ELSE Some(<<<<Unwrap(start.ret), Unwrap(size.ret)>>>> \o Unwrap(rest))])])])

\* MemoryRegion::new
MemoryRegion_new(node, name, address_cells, size_cells) ==
    IF Len(node.children) # 0 THEN Err(<<"Children">>)
    ELSE
    Let([p_type \in {Map_remove("bytes", node.properties, DEVICE_TYPE)} |->
    IF ~(IsSome(p_type.ret) /\ SliceBytes(Unwrap(p_type.ret)) = STR_memory_nul)
    THEN Err(<<"Type">>)
    ELSE
    Let([p_hot \in {Map_remove("bytes", p_type.self, HOTPLUGGABLE)} |->
    Let([p_reg \in {Map_remove("bytes", p_hot.self, REG)} |->
    IF IsNone(p_reg.ret) THEN Err(<<"Reg">>)
    ELSE
    Let([memory \in {ConsumeRegions(Unwrap(p_reg.ret), name, address_cells, size_cells)} |->
    IF IsNone(memory) THEN Err(<<"Reg">>)
    ELSE Ok([regions |-> Unwrap(memory), hotpluggable |-> IsSome(p_hot.ret),
             properties |-> p_reg.self])
    ])])])])

RECURSIVE CollectMemory(_, _, _)
\* root.rs: the memory nodes, up to the first failure
CollectMemory(kids, address_cells, size_cells) ==
    IF Len(kids) = 0 THEN Ok(<<>>)
    ELSE Let([first \in {MemoryRegion_new(kids[1][2], kids[1][1], address_cells, size_cells)} |->
         IF ~first.ok THEN first
         ELSE Let([rest \in {CollectMemory(Tail(kids), address_cells, size_cells)} |->
              IF ~rest.ok THEN rest
              ELSE Ok(<<first.val>> \o rest.val)])])

---------------------------------------------------------------------------
(* node/mod.rs: Node::find;  node/root.rs *)

RECURSIVE find(_, _, _)
\* Node::find, on the children map of the node
find(kids, sub_path, rest_path) ==
    Let([node \in {Map_get("name", kids, sub_path)} |->
    IF IsNone(node) THEN None
    ELSE IF Len(rest_path) = 0 THEN node
    ELSE find(Unwrap(node).children, rest_path[1], Tail(rest_path))])

RECURSIVE Split(_, _)
\* slice::split: the pieces between the separators
Split(s, sep) ==
    Let([at \in {IndexOf(s, sep, 1)} |->
    IF at = 0 THEN <<s>> ELSE <<Take(s, at - 1)>> \o Split(Drop(s, at), sep)])

RECURSIVE PathNames(_)
\* the segments of a path that are not empty and are valid names
PathNames(segments) ==
    IF Len(segments) = 0 THEN <<>>
    ELSE IF Len(segments[1]) # 0 /\ NameRef_try_from(segments[1]).ok
    THEN <<NameRef_try_from(segments[1]).val>> \o PathNames(Tail(segments))
    ELSE PathNames(Tail(segments))

\* the node an alias path names: among the children of a reserved-memory
\* node, or among the device nodes below the root
AliasEntry(path, reserved_memory, kids) ==
    Let([c_path \in {FromBytesUntilNul(path)} |->
    IF IsNone(c_path) THEN None
    ELSE
    Let([segments \in {PathNames(Split(Unwrap(c_path), 47))} |->
    IF Len(segments) = 0 THEN None
    ELSE IF segments[1] = NodeNames_reserved_memory
    THEN IF Len(segments) < 3 THEN None
         ELSE Let([grandchild \in {Map_get("name", reserved_memory, segments[2])} |->
              IF IsNone(grandchild) THEN None
              ELSE find(Unwrap(grandchild).children, segments[3], Drop(segments, 3))])
    ELSE Let([direct_child \in {Map_get("name", kids, segments[1])} |->
         IF IsNone(direct_child) THEN None
         ELSE IF Len(segments) = 1 THEN direct_child
         ELSE find(Unwrap(direct_child).children, segments[2], Drop(segments, 2))])
    ])])

RECURSIVE AliasPairs(_, _, _)
\* the filter_map over the properties of /aliases
AliasPairs(props, reserved_memory, kids) ==
    IF Len(props) = 0 THEN <<>>
    ELSE Let([name \in {NameRef_try_from(props[1][1])} |->
         Let([entry \in {AliasEntry(SliceBytes(props[1][2]), reserved_memory, kids)} |->
         Let([rest \in {AliasPairs(Tail(props), reserved_memory, kids)} |->
         IF name.ok /\ IsSome(entry) THEN <<<<name.val, Unwrap(entry)>>>> \o rest
         ELSE rest])])])

\* Map::extract_if: the entries taken out, and the entries left
IsCacheChild(entry) == ~StartsWith(entry[1].node_name, NodeNames_cpu_prefix)
IsMemoryChild(entry) == entry[1].node_name = NodeNames_memory
\* the two filters root::Node::try_from hands to extract_if
ExtractFilter(which, entry) ==
    IF which = "caches" THEN IsCacheChild(entry) ELSE IsMemoryChild(entry)
Extracted(contents, which) == SelectSeq(contents, LAMBDA e : ExtractFilter(which, e))
Retained(contents, which) == SelectSeq(contents, LAMBDA e : ~ExtractFilter(which, e))

RECURSIVE CollectCaches(_, _)
\* the cache children of /cpus, each made a cache node, up to the first failure
CollectCaches(kids, phandles) ==
    IF Len(kids) = 0 THEN WithPHandles(Ok(<<>>), phandles)
    ELSE Let([first \in {HigherLevel_new(kids[1][2], phandles)} |->
         IF IsPanic(first.ret) THEN first
         ELSE IF ~first.ret.ok THEN WithPHandles(Err(<<"Cache">>), first.phandles)
         ELSE Let([rest \in {CollectCaches(Tail(kids), first.phandles)} |->
              IF ~rest.ret.ok THEN rest
              ELSE WithPHandles(Ok(<<first.ret.val>> \o rest.ret.val), rest.phandles)])])

RECURSIVE CollectCpus(_, _, _, _)
\* the CPU children of /cpus, up to the first failure: pairs <<reg, node>>
CollectCpus(kids, base, caches, cpu_addr_cells) ==
    IF Len(kids) = 0 THEN Ok(<<>>)
    ELSE Let([node \in {CpuNode_new(kids[1][2], base, caches, cpu_addr_cells)} |->
         Let([address \in {kids[1][1].unit_address} |->
         IF ~node.ok THEN MapErr(node, "Cpu")
         ELSE IF IsSome(address) /\ Unwrap(address) # U64From(node.val.reg)
         THEN ErrWith(<<"RegMismatch">>, <<address, node.val.reg>>)
         ELSE Let([rest \in {CollectCpus(Tail(kids), base, caches, cpu_addr_cells)} |->
              IF ~rest.ok THEN rest
              ELSE Ok(<<<<node.val.reg, node.val>>>> \o rest.val)])])])

\* ChassisType::try_from: the chassis type is a NUL-terminated string
ChassisType_try_from(s) ==
    IF IsSome(CStrTryFrom(s)) THEN Ok(Unwrap(CStrTryFrom(s))) ELSE Err(<<"Chassis">>)

\* TryFrom<RawNode> for root::Node
Root_try_from(value) ==
    Let([p_model \in {Map_remove("bytes", value.properties, MODEL)} |->
    IF ~(IsSome(p_model.ret) /\ IsSome(CStrTryFrom(Unwrap(p_model.ret))))
    THEN Err(<<"Model">>)
    ELSE
    Let([p_compatible \in {Map_remove("bytes", p_model.self, COMPATIBLE)} |->
    IF ~(IsSome(p_compatible.ret) /\ IsSome(ModelList_try_from(Unwrap(p_compatible.ret))))
    THEN Err(<<"Model">>)
    ELSE
    Let([p_serial \in {Map_remove("bytes", p_compatible.self, SERIAL_NUMBER)} |->
    IF IsSome(p_serial.ret) /\ IsNone(CStrTryFrom(Unwrap(p_serial.ret)))
    THEN Err(<<"SerialNumber">>)
    ELSE
    Let([cells \in {extract_cell_counts(RawNodeOf(value.children, p_serial.self))} |->
    IF ~cells.addr.ok \/ ~cells.size.ok THEN Err(<<"Cells", "Invalid">>)
    ELSE
    Let([address_cells \in {cells.addr.val} |->
    Let([size_cells \in {cells.size.val} |->
    IF size_cells = 0 THEN Err(<<"Cells", "Invalid">>)
    ELSE
    Let([c_cpus \in {Map_remove("name", cells.self.children, NodeNames_cpus)} |->
    IF IsNone(c_cpus.ret) THEN Err(<<"CpuRoot">>)
    ELSE
    Let([cpu_cells \in {extract_cell_counts(Unwrap(c_cpus.ret))} |->
    IF ~(cpu_cells.addr.ok /\ cpu_cells.size.ok /\ cpu_cells.size.val = 0)
    THEN Err(<<"CpuRoot">>)
    ELSE
    Let([cpus_root \in {cpu_cells.self} |->
    Let([cpu_addr_cells \in {cpu_cells.addr.val} |->
    IF cpu_addr_cells = 0 THEN Err(<<"CpuRoot">>)
    ELSE
    Let([caches \in {CollectCaches(Extracted(cpus_root.children, "caches"), Map_new)} |->
    IF ~caches.ret.ok THEN caches.ret
    ELSE
    Let([higher_caches \in {Map_from_iter("bytes", caches.ret.val)} |->
    Let([cpus \in {CollectCpus(Retained(cpus_root.children, "caches"), cpus_root.properties,
                               higher_caches, cpu_addr_cells)} |->
    IF ~cpus.ok THEN cpus
    ELSE
    Let([c_reserved \in {Map_remove("name", c_cpus.self, NodeNames_reserved_memory)} |->
    IF IsNone(c_reserved.ret) THEN Err(<<"ReservedMemoryRoot">>)
    ELSE
    Let([reserved_cells \in {extract_cell_counts(Unwrap(c_reserved.ret))} |->
    Let([p_ranges \in {Map_remove("bytes", reserved_cells.self.properties, RANGES)} |->
    IF ~(/\ reserved_cells.addr.ok /\ reserved_cells.addr.val = address_cells
         /\ reserved_cells.size.ok /\ reserved_cells.size.val = size_cells
         /\ IsSome(p_ranges.ret) /\ is_empty(Unwrap(p_ranges.ret)))
    THEN Err(<<"ReservedMemoryRoot">>)
    ELSE
    Let([reserved \in {CollectReserved(reserved_cells.self.children, address_cells, size_cells,
                                       caches.phandles)} |->
    IF ~reserved.ret.ok THEN MapErr(reserved.ret, "ReservedMemory")
    ELSE
    Let([reserved_memory \in {Map_from_iter("name", reserved.ret.val)} |->
    Let([memory \in {CollectMemory(Extracted(c_reserved.self, "memory"),
                                   address_cells, size_cells)} |->
    IF ~memory.ok THEN MapErr(memory, "Memory")
    ELSE
    Let([p_chassis \in {Map_remove("bytes", cells.self.properties, CHASSIS)} |->
    Let([chassis \in {IF IsNone(p_chassis.ret) THEN Ok(None)
                      ELSE Let([made \in {ChassisType_try_from(Unwrap(p_chassis.ret))} |->
                           IF made.ok THEN Ok(Some(made.val)) ELSE Err(<<"Chassis">>)])} |->
    IF ~chassis.ok THEN chassis
    ELSE
    Let([c_aliases \in {Map_remove("name", Retained(c_reserved.self, "memory"),
                                   NodeNames_aliases)} |->
    Let([parts \in {into_components(RawNodeOf(c_aliases.self, p_chassis.self),
                                    reserved.phandles)} |->
    IF ~parts.children.ok
    THEN (IF parts.children.err = <<"Cells">> THEN Err(<<"Cells", "Invalid">>)
          ELSE parts.children)
    ELSE
    Let([aliases \in {IF IsNone(c_aliases.ret) THEN Map_new
                      ELSE Map_from_iter("name",
                               AliasPairs(Unwrap(c_aliases.ret).properties, reserved_memory,
                                          parts.children.val))} |->
    Ok([phandles |-> parts.phandles,
        aliases |-> aliases,
        model |-> Unwrap(CStrTryFrom(Unwrap(p_model.ret))),
        compatible |-> Unwrap(ModelList_try_from(Unwrap(p_compatible.ret))),
        serial_number |-> IF IsNone(p_serial.ret) THEN None
                          ELSE CStrTryFrom(Unwrap(p_serial.ret)),
        chassis |-> chassis.val,
        cpus |-> Map_from_iter("bytes", cpus.val),
        memory |-> memory.val,
        reserved_memory |-> reserved_memory,
        higher_caches |-> higher_caches,
        properties |-> parts.properties,
        children |-> parts.children.val])
    ])])])])])])])])])])])])])])])])])])])])])])])])

---------------------------------------------------------------------------
(* dtb.rs: DeviceTree::from_bytes as a state machine *)

\* `return Err(..)`, or a panic: from_bytes ends with r
Return(r) ==
    /\ result' = Some(r)
    /\ pc' = "done"

\* the next item of Token::iterate_bytes, when there is one
NextToken == consume_token(bytes, dt_strings)
TokenIs(kind) ==
    /\ pc = "tokens"
    /\ ~is_empty(bytes)
    /\ NextToken.ret.ok
    /\ NextToken.ret.val.kind = kind

\* the token was handled and the loop goes on
Continue(kind) ==
    /\ bytes' = NextToken.self
    /\ seen' = Append(seen, kind)
    /\ UNCHANGED <<dtb, pc, dt_strings, header, result>>

\* the handler returned r
Stop(kind, r) ==
    /\ Return(r)
    /\ bytes' = NextToken.self
    /\ seen' = Append(seen, kind)
    /\ UNCHANGED <<dtb, dt_strings, header, properties, children, names, device_tree>>

\* from_bytes up to the token loop
ReadHeader ==
    /\ pc = "header"
    /\ \E parsed \in {ParseHeader(dtb)} :
       IF parsed.ok
       THEN /\ pc' = "tokens"
            /\ bytes' = parsed.val.dt_struct
            /\ dt_strings' = parsed.val.dt_strings
            /\ header' = parsed.val.header
            /\ properties' = <<>>
            /\ children' = << <<>> >>
            /\ names' = <<>>
            /\ device_tree' = Err(<<"EoF">>)
            /\ UNCHANGED <<dtb, result, seen>>
       ELSE /\ Return(parsed)
            /\ UNCHANGED <<dtb, bytes, dt_strings, header, properties, children, names,
                           device_tree, seen>>

\* mutant of OnBeginNode: no frame of properties is opened
OnBeginNodeNoFrame ==
    /\ TokenIs("BeginNode")
    /\ children' = Append(children, <<>>)
    /\ names' = Append(names, NextToken.ret.val.name)
    /\ UNCHANGED <<properties, device_tree>>
    /\ Continue("BeginNode")

\* Token::BeginNode(name)
OnBeginNode ==
    /\ TokenIs("BeginNode")
    /\ properties' = Append(properties, Map_new)
    /\ children' = Append(children, <<>>)
    /\ names' = Append(names, NextToken.ret.val.name)
    /\ UNCHANGED device_tree
    /\ Continue("BeginNode")

\* Token::EndNode
OnEndNode ==
    /\ TokenIs("EndNode")
    /\ IF Len(names) = 0 THEN Stop("EndNode", Err(<<"TooManyEnds">>))
       ELSE IF Len(children) = 0 \/ Len(properties) = 0
       THEN Stop("EndNode", PANIC("from_bytes: Properties, children, and names should all be in sync"))
       ELSE IF Len(children) = 1 THEN Stop("EndNode", Err(<<"TooManyEnds">>))
       ELSE \E node \in {RawNode_new(children[Len(children)], properties[Len(properties)])} :
            \E below \in {Len(children) - 1} :
            /\ names' = Take(names, Len(names) - 1)
            /\ properties' = Take(properties, Len(properties) - 1)
            /\ children' = [Take(children, below) EXCEPT
                               ![below] = Append(@, <<names[Len(names)], node>>)]
            /\ UNCHANGED device_tree
            /\ Continue("EndNode")

\* Token::Prop(name, value)
OnProp ==
    /\ TokenIs("Prop")
    /\ IF Len(properties) = 0 THEN Stop("Prop", Err(<<"InvalidProp">>))
       ELSE \E inserted \in {Map_insert("bytes", properties[Len(properties)],
                                       NextToken.ret.val.name, NextToken.ret.val.value)} :
            IF IsSome(inserted.ret) THEN Stop("Prop", Err(<<"Parsing">>))
            ELSE /\ properties' = [properties EXCEPT ![Len(properties)] = inserted.self]
                 /\ UNCHANGED <<children, names, device_tree>>
                 /\ Continue("Prop")

\* mutant of OnNop: a Nop token opens a frame of children
OnNopPushes ==
    /\ TokenIs("Nop")
    /\ children' = Append(children, <<>>)
    /\ UNCHANGED <<properties, names, device_tree>>
    /\ Continue("Nop")

\* Token::Nop
OnNop ==
    /\ TokenIs("Nop")
    /\ UNCHANGED <<properties, children, names, device_tree>>
    /\ Continue("Nop")

\* mutant of RootNameOk: any name is taken for the root
RootNameAny(name) == TRUE

\* "The full path to the root node is /": an empty node-name, no unit-address
RootNameOk(name) == Len(name.node_name) = 0 /\ IsNone(name.unit_address)

\* mutant of EndOfTree: the root found at End is not resolved
EndOfTreeUnresolved(roots) == Ok([root |-> [children |-> roots[1][2].children]])

\* mutant of EndOfTree: the boot CPU is the first CPU of the tree
EndOfTreeFirstCpu(roots) ==
    IF Len(roots) # 1 THEN ErrWith(<<"BadRoots">>, Keys(roots))
    ELSE IF ~RootNameOk(roots[1][1])
    THEN ErrWith(<<"BadRootName">>, roots[1][1])
    ELSE Let([root \in {Root_try_from(roots[1][2])} |->
         IF ~root.ok THEN MapErr(root, "Node")
         ELSE IF Len(root.val.cpus) = 0 THEN ErrWith(<<"BootCpu">>, header.boot_cpuid_phys)
         ELSE Ok([root |-> root.val, version |-> header.version,
                  last_compatible_version |-> header.last_compatible_version,
                  boot_cpu |-> root.val.cpus[1][2]])])

\* the body of the Token::End arm after the depth check: a Result
EndOfTree(roots) ==
    IF Len(roots) # 1 THEN ErrWith(<<"BadRoots">>, Keys(roots))
    ELSE IF ~RootNameOk(roots[1][1])
    THEN ErrWith(<<"BadRootName">>, roots[1][1])
    ELSE Let([root \in {Root_try_from(roots[1][2])} |->
         IF ~root.ok THEN MapErr(root, "Node")
         ELSE Let([boot_cpu \in {Map_get("bytes", root.val.cpus, header.boot_cpuid_phys)} |->
              IF IsNone(boot_cpu) THEN ErrWith(<<"BootCpu">>, header.boot_cpuid_phys)
              ELSE Ok([root |-> root.val, version |-> header.version,
                       last_compatible_version |-> header.last_compatible_version,
                       boot_cpu |-> Unwrap(boot_cpu)])])])

\* Token::End
OnEnd ==
    /\ TokenIs("End")
    /\ IF device_tree.ok THEN Stop("End", Err(<<"TooManyEnds">>))
       ELSE IF Len(children) # 1 THEN Stop("End", ErrWith(<<"BadDepth">>, Len(children)))
       ELSE \E made \in {EndOfTree(children[1])} :
            IF ~made.ok THEN Stop("End", made)
            ELSE /\ device_tree' = made
                 /\ children' = <<>>
                 /\ UNCHANGED <<properties, names>>
                 /\ Continue("End")

\* `token.map_err(DeviceTreeError::Token)?`, or a panic inside consume_token
OnTokenError ==
    /\ pc = "tokens"
    /\ ~is_empty(bytes)
    /\ ~NextToken.ret.ok
    /\ Return(MapErr(NextToken.ret, "Token"))
    /\ bytes' = NextToken.self
    /\ UNCHANGED <<dtb, dt_strings, header, properties, children, names, device_tree, seen>>

\* the iterator is exhausted: from_bytes returns device_tree
Finish ==
    /\ pc = "tokens"
    /\ is_empty(bytes)
    /\ Return(device_tree)
    /\ UNCHANGED <<dtb, bytes, dt_strings, header, properties, children, names,
                   device_tree, seen>>

Next ==
    \/ ReadHeader
    \/ OnBeginNode
    \/ OnEndNode
    \/ OnProp
    \/ OnNop
    \/ OnEnd
    \/ OnTokenError
    \/ Finish

\* the state when from_bytes is called with the buffer d
Start(d) ==
    /\ dtb = d
    /\ pc = "header"
    /\ bytes = SliceOf(<<>>, 0)
    /\ dt_strings = <<>>
    /\ header = NoHeader
    /\ properties = <<>>
    /\ children = <<>>
    /\ names = <<>>
    /\ device_tree = Err(<<"EoF">>)
    /\ result = None
    /\ seen = <<>>


---------------------------------------------------------------------------
(* Blobs.  The encoders below write structure blocks, strings blocks and    *)
(* headers in the flattened-devicetree format, to build the buffers that   *)
(* from_bytes is called with.                                              *)

RECURSIVE Zeros(_)
Zeros(n) == IF n <= 0 THEN <<>> ELSE <<0>> \o Zeros(n - 1)
\* b followed by zero bytes up to a multiple of n
PadTo(b, n) == b \o Zeros((n - (Len(b) % n)) % n)

RECURSIVE Concat(_)
Concat(ss) == IF Len(ss) = 0 THEN <<>> ELSE ss[1] \o Concat(Tail(ss))

\* a NUL-terminated string
Str(s) == s \o <<0>>

\* property names of no meaning to the parser
K_u == <<117>>    \* "u"
K_v == <<118>>    \* "v"

\* the property names of the strings block, in the order they are stored
KeyTable ==
    <<MODEL, COMPATIBLE, ADDRESS_CELLS, SIZE_CELLS, DEVICE_TYPE, REG, RANGES, PHANDLE,
      STATUS, CACHE_LEVEL, ENABLE_METHOD, CPU_RELEASE_ADDR, NEXT_LEVEL_CACHE, STDOUT_PATH,
      K_u, K_v>>
StringsBlock == Concat([i \in 1..Len(KeyTable) |-> Str(KeyTable[i])])
RECURSIVE OffsetOf(_, _)
OffsetOf(key, i) ==
    IF KeyTable[i] = key THEN 0 ELSE Len(KeyTable[i]) + 1 + OffsetOf(key, i + 1)
NameOff(key) == OffsetOf(key, 1)

\* tokens
TBegin(name) == BEGIN_NODE \o PadTo(Str(name), 4)
TEndNode == END_NODE
TNop == NOP
TEnd == END
\* a Prop token whose value is followed by the given padding bytes
TPropPadded(key, value, padding) ==
    PROP \o ToU32(Len(value)) \o ToU32(NameOff(key)) \o value \o padding
TProp(key, value) == TPropPadded(key, value, Zeros((4 - (Len(value) % 4)) % 4))
TNode(name, props, kids) == TBegin(name) \o props \o kids \o TEndNode

\* node names
N_root == <<>>    \* ""
N_cpus == <<99, 112, 117, 115>>    \* "cpus"
N_cpu0 == <<99, 112, 117, 64, 48>>    \* "cpu@0"
N_cpu1 == <<99, 112, 117, 64, 49>>    \* "cpu@1"
N_l2 == <<108, 50>>    \* "l2"
N_l3 == <<108, 51>>    \* "l3"
N_reserved == <<114, 101, 115, 101, 114, 118, 101, 100, 45, 109, 101, 109, 111, 114, 121>>    \* "reserved-memory"
N_soc == <<115, 111, 99>>    \* "soc"
N_a == <<97>>    \* "a"
N_b == <<98>>    \* "b"
N_d == <<100>>    \* "d"
S_m == <<109>>    \* "m"
S_xy == <<120, 44, 121>>    \* "x,y"

\* a header of 10 fields
HeaderBytes(magic, totalsize, off_dt_struct, off_dt_strings, last_comp_version,
            boot_cpuid_phys, size_dt_strings, size_dt_struct) ==
    magic \o ToU32(totalsize) \o ToU32(off_dt_struct) \o ToU32(off_dt_strings)
          \o ToU32(40) \o ToU32(17) \o ToU32(last_comp_version) \o ToU32(boot_cpuid_phys)
          \o ToU32(size_dt_strings) \o ToU32(size_dt_struct)

\* a well-formed blob around a structure block: header, structure block,
\* strings block, zero bytes up to a whole number of u64 words
DtbOf(struct) ==
    PadTo(HeaderBytes(FDT_HEADER_MAGIC, 40 + Len(struct) + Len(StringsBlock), 40,
                      40 + Len(struct), 16, 0, Len(StringsBlock), Len(struct))
              \o struct \o StringsBlock, 8)


\* the parts of a tree that resolves: /, /cpus with cpu@0, /reserved-memory
RootProps == TProp(MODEL, Str(S_m)) \o TProp(COMPATIBLE, Str(S_xy))
CpuOf(name, id) == TNode(name, TProp(DEVICE_TYPE, Str(STR_cpu)) \o TProp(REG, ToU32(id)), <<>>)
CpusOf(kids) ==
    TNode(N_cpus, TProp(ADDRESS_CELLS, ToU32(1)) \o TProp(SIZE_CELLS, ToU32(0)), kids)
ReservedOf(kids) == TNode(N_reserved, TProp(RANGES, <<>>), kids)
\* the structure block of a tree with the given cache nodes under /cpus and
\* the given device nodes under the root, without the End token
TreeOf(caches, devices) ==
    TNode(N_root, RootProps, CpusOf(caches \o CpuOf(N_cpu0, 0)) \o ReservedOf(<<>>) \o devices)
\* the structure block of the smallest tree that resolves
GoodTree == TreeOf(<<>>, <<>>) \o TEnd

---------------------------------------------------------------------------
(* Specification Spec: from_bytes on blobs whose header fields vary, around *)
(* the structure block of the minimal tree.                                *)

\* off_dt_struct and size_dt_struct are moved by 0..MaxSkew bytes
MaxSkew == 3
\* last_comp_version goes up to VERSION_PARSED + MaxNewer
MaxNewer == 1

\* BeginNode with the empty name, EndNode, End
MinimalStruct == TBegin(N_root) \o TEndNode \o TEnd

Magics == {FDT_HEADER_MAGIC, <<237, 254, 13, 208>>, <<208, 13, 254, 236>>, Zero32}

\* a blob around MinimalStruct whose header holds the given fields
HeaderBlob(magic, totalsize, off_dt_struct, off_dt_strings, last_comp_version,
           size_dt_struct) ==
    PadTo(HeaderBytes(magic, totalsize, off_dt_struct, off_dt_strings, last_comp_version,
                      0, Len(StringsBlock), size_dt_struct)
              \o MinimalStruct \o StringsBlock, 8)

MinimalSize == 40 + Len(MinimalStruct) + Len(StringsBlock)

HeaderCorpus ==
    { HeaderBlob(magic, totalsize, 40 + off, off_dt_strings, last_comp_version,
                 Len(MinimalStruct) + size) :
        magic \in Magics,
        totalsize \in {MinimalSize, 32, MinimalSize + 8},
        off \in 0..MaxSkew,
        off_dt_strings \in {40 + Len(MinimalStruct), 4096},
        last_comp_version \in (VERSION_PARSED - 1)..(VERSION_PARSED + MaxNewer),
        size \in 0..MaxSkew }

\* buffers of no word and of one word
ShortCorpus == {<<>>} \cup {magic \o ToU32(8) : magic \in Magics}

\* blobs that take the parser through every kind of token, to a tree and to a
\* token error
BaseCorpus ==
    { DtbOf(TNop \o GoodTree), DtbOf(TBegin(N_root) \o <<0, 0, 0, 7>>) }

Init == \E d \in HeaderCorpus \cup ShortCorpus \cup BaseCorpus : Start(d)

Spec == Init /\ [][Next]_vars

\* what from_bytes returned
Returned == pc = "done" /\ IsSome(result)
Failed(error) == Returned /\ ~Unwrap(result).ok /\ Unwrap(result).err = error
Succeeded == Returned /\ Unwrap(result).ok
Panicked == Returned /\ IsPanic(Unwrap(result))

---------------------------------------------------------------------------
(* Properties of the header and of the minimal tree *)

\* the buffer is a valid minimal DTB: the header is accepted and the
\* structure block holds only BeginNode with the empty name, EndNode, End
MinimalDtb == ParseHeader(dtb).ok /\ ParseHeader(dtb).val.dt_struct.bytes = MinimalStruct

\* C1 as stated: on every valid minimal DTB from_bytes succeeds and yields a
\* root with no children.
C1_MinimalSucceeds ==
    (MinimalDtb /\ pc = "done") =>
        (Succeeded /\ Len(Unwrap(result).val.root.children) = 0)

\* C1, amended: on every valid minimal DTB the three tokens are read, the End
\* token hands the empty root to the root resolver, which rejects it for its
\* missing `model`: from_bytes returns the error Node(Model) and no tree is
\* ever produced.
C1_MinimalFailsWithModel ==
    MinimalDtb =>
        /\ ~device_tree.ok
        /\ (pc = "done" => /\ Failed(<<"Node", "Model">>)
                           /\ seen = <<"BeginNode", "EndNode", "End">>)

C1_Witness ==
    /\ MinimalDtb
    /\ seen = <<"BeginNode", "EndNode", "End">>
    /\ Failed(<<"Node", "Model">>)

\* the first big-endian 32-bit word of a non-empty buffer is not 0xD00DFEED
BadMagic == Len(dtb) > 0 /\ HeaderField(dtb, 0) # <<208, 13, 254, 237>>

\* C2: for every non-empty buffer whose first big-endian word is not
\* 0xD00DFEED, from_bytes returns the Magic error at its first step, whatever
\* the rest of the buffer holds; no token is read, no frame and no tree exist.
C2_BadMagicFails ==
    BadMagic =>
        /\ pc \in {"header", "done"}
        /\ (pc = "done" => Failed(<<"Magic">>))
        /\ ~device_tree.ok
        /\ seen = <<>> /\ children = <<>> /\ properties = <<>> /\ names = <<>>

C2_Witness == BadMagic /\ Failed(<<"Magic">>) /\ Len(dtb) > 40

\* the header fields of a buffer that holds a header
In_totalsize == ToNat(HeaderField(dtb, 1))
In_off_dt_struct == HeaderField(dtb, 2)
In_last_comp_version == ToNat(HeaderField(dtb, 6))
In_size_dt_struct == HeaderField(dtb, 9)

\* correct magic, a buffer of at least totalsize bytes, and off_dt_struct or
\* size_dt_struct not a multiple of 4
Misaligned ==
    /\ Len(dtb) >= 40
    /\ HeaderField(dtb, 0) = <<208, 13, 254, 237>>
    /\ Len(dtb) >= In_totalsize
    /\ (In_off_dt_struct[4] % 4 # 0 \/ In_size_dt_struct[4] % 4 # 0)

\* C3 as stated: every such DTB fails with the Alignment error, whatever the
\* other header fields.
C3_MisalignedFails == (Misaligned /\ pc = "done") => Failed(<<"Alignment">>)

\* C3, amended: every such DTB whose totalsize covers the 40-byte header
\* (more than 32 bytes, the blob being cut at totalsize rounded up to 8) and
\* whose last_comp_version is at most 17 fails with the Alignment error, at
\* the header step; a newer last_comp_version is reported first
\* (NewerVersion), and a shorter totalsize is EoF.
C3_MisalignedFailsAfterVersion ==
    (Misaligned /\ In_totalsize > 32 /\ In_last_comp_version <= 17) =>
        /\ pc \in {"header", "done"}
        /\ (pc = "done" => Failed(<<"Alignment">>))

C3_Witness ==
    /\ Misaligned /\ In_totalsize > 32 /\ In_last_comp_version <= 17
    /\ In_off_dt_struct[4] % 4 = 0
    /\ Failed(<<"Alignment">>)

---------------------------------------------------------------------------
(* Specification SpecTokens: from_bytes on well-formed blobs whose          *)
(* structure block is a short sequence of tokens, a resolving tree followed *)
(* by more tokens, a node whose Prop tokens repeat a name, or a Prop token  *)
(* with padding bytes.                                                     *)

\* token sequences hold up to MaxTokens tokens
MaxTokens == 4
\* up to MaxTrail tokens follow the End of a resolving tree
MaxTrail == 2
\* the padded Prop values are 1..MaxValueLen bytes long
MaxValueLen == 3

N_at0 == <<64, 48>>    \* "@0"

TokenAlphabet == {TBegin(N_root), TBegin(N_a), TBegin(N_at0), TEndNode, TEnd, TNop}
TrailAlphabet == {TNop, TBegin(N_a), TEndNode, TEnd, TProp(REG, <<>>)}

\* the concatenations of up to n tokens of the alphabet
RECURSIVE TokenSeqs(_, _)
TokenSeqs(alphabet, n) ==
    IF n = 0 THEN {<<>>}
    ELSE {<<>>} \cup {t \o s : t \in alphabet, s \in TokenSeqs(alphabet, n - 1)}

TokenCorpus == {DtbOf(s) : s \in TokenSeqs(TokenAlphabet, MaxTokens)}

\* a tree that resolves, its End, and up to MaxTrail more tokens
TrailCorpus == {DtbOf(GoodTree \o s) : s \in TokenSeqs(TrailAlphabet, MaxTrail)}

\* a slot of a node holds no token or one Prop token: <<>> or <<key, value>>
SlotChoices == {<<>>} \cup {<<k, v>> : k \in {REG, RANGES}, v \in {<<>>, ToU32(1)}}
SlotToken(c) == IF c = <<>> THEN <<>> ELSE TProp(c[1], c[2])
SameKey(c, d) == c # <<>> /\ d # <<>> /\ c[1] = d[1]
\* a tree whose root holds the slots q[1], q[2] before its children and q[4]
\* after them, and whose child /a holds the slot q[3]
SlotBlob(q) ==
    DtbOf(TBegin(N_root) \o RootProps \o SlotToken(q[1]) \o SlotToken(q[2])
            \o CpusOf(CpuOf(N_cpu0, 0)) \o ReservedOf(<<>>)
            \o TNode(N_a, SlotToken(q[3]), <<>>)
            \o SlotToken(q[4]) \o TEndNode \o TEnd)
SlotTuples == SlotChoices \X SlotChoices \X SlotChoices \X SlotChoices
SlotCorpus == {SlotBlob(q) : q \in SlotTuples}
\* the root carries two Prop tokens of one name
DuplicateOnNode ==
    {SlotBlob(q) : q \in {t \in SlotTuples :
        SameKey(t[1], t[2]) \/ SameKey(t[1], t[4]) \/ SameKey(t[2], t[4])}}
\* the two Prop tokens of one name are apart, the child between them
SplitDuplicate == {SlotBlob(<<<<REG, <<>>>>, <<>>, <<>>, <<REG, ToU32(1)>>>>)}
\* the root and its child /a carry one Prop token each, of one name
SameNameTwoNodes ==
    {SlotBlob(<<<<k, <<>>>>, <<>>, <<k, <<>>>>, <<>>>>) : k \in {REG, RANGES}}

\* the sequences of n bytes, each 0 or 1
RECURSIVE Pads(_)
Pads(n) == IF n = 0 THEN {<<>>} ELSE {<<b>> \o s : b \in {0, 1}, s \in Pads(n - 1)}
Sevens(n) == [i \in 1..n |-> 7]
\* a root with one Prop token, its value followed by padding bytes
PadBlob(length, padding) ==
    DtbOf(TBegin(N_root) \o TPropPadded(REG, Sevens(length), padding) \o TEndNode \o TEnd)
PadCorpus ==
    {PadBlob(length, padding) :
        <<length, padding>> \in UNION {{<<l, pad>> : pad \in Pads((4 - (l % 4)) % 4)} :
                                       l \in 1..MaxValueLen}}

InitTokens ==
    \E d \in TokenCorpus \cup TrailCorpus \cup SlotCorpus \cup PadCorpus \cup BaseCorpus :
        Start(d)

SpecTokens == InitTokens /\ [][Next]_vars

---------------------------------------------------------------------------
(* Properties of the token loop *)

\* C4: from_bytes returns a tree only if the single End token is the final
\* token of the structure block: whenever from_bytes has returned a tree, the
\* last token read is End and no other End was read.
C4_TreeOnlyIfEndIsLast ==
    Succeeded => (seen[Len(seen)] = "End" /\ CountOf(seen, "End") = 1)

\* C5: when an End token is read and no tree has been produced, from_bytes
\* fails with BadDepth (and the number of frames) unless exactly one frame
\* remains, else with BadRoots unless that frame holds exactly one child, else
\* with BadRootName unless that child's node-name is empty and it has no
\* unit-address; only past these three checks does the parse go on, to a tree
\* or to an error of the root's resolution.  When the tokens run out and no End
\* token was read, from_bytes fails with EoF.
C5_EndChecks ==
    [][ /\ (TokenIs("End") /\ ~device_tree.ok) =>
               IF Len(children) # 1
               THEN Failed(<<"BadDepth">>)' /\ Unwrap(result').val = Len(children)
               ELSE IF Len(children[1]) # 1
               THEN Failed(<<"BadRoots">>)'
               ELSE IF \/ Len(children[1][1][1].node_name) # 0
                       \/ IsSome(children[1][1][1].unit_address)
               THEN Failed(<<"BadRootName">>)'
               ELSE \/ pc' = "tokens" /\ device_tree'.ok
                    \/ pc' = "done" /\ Unwrap(result').err[1] \in {"Node", "BootCpu"}
        /\ (pc = "tokens" /\ is_empty(bytes) /\ CountOf(seen, "End") = 0) =>
               Failed(<<"EoF">>)'
      ]_vars

C5_Witness ==
    /\ Failed(<<"BadRootName">>)
    /\ IsSome(Unwrap(result).val.unit_address)
    /\ seen = <<"BeginNode", "EndNode", "End">>

\* C6: every structure block in which one node carries two Prop tokens of one
\* name, next to each other or apart, before or after the node's children,
\* with equal or different values, makes from_bytes fail with Parsing; a block
\* in which no node does never fails with Parsing, and one name carried once by
\* a node and once by its child is accepted.
C6_DuplicatePropertyFails ==
    pc = "done" =>
        /\ dtb \in DuplicateOnNode => Failed(<<"Parsing">>)
        /\ dtb \in SlotCorpus \ DuplicateOnNode => ~Failed(<<"Parsing">>)
        /\ dtb \in SameNameTwoNodes => Succeeded

C6_Witness == dtb \in SplitDuplicate /\ Failed(<<"Parsing">>)

\* C7: no Prop token makes the decoder panic: for every Prop token whose value
\* length is not a multiple of 4, whatever the bytes that pad the value, a
\* token or a TokenError is returned.
C7_PropNeverPanics == dtb \in PadCorpus => ~Panicked

---------------------------------------------------------------------------
(* Specification SpecTree: from_bytes on well-formed blobs whose tree       *)
(* resolves up to its generic device nodes and its cache nodes, which carry *)
(* phandles and malformed properties.                                      *)

\* the phandles of the nodes are 1..MaxPHandle
MaxPHandle == 2

S_x == <<120>>    \* "x"

\* a malformed property of a device node, by the error it is reported with
Defects == {"Reg", "Compatible", "Model", "Ranges", "Status", "BadPHandle"}
DefectProp(defect) ==
    CASE defect = "Reg" -> TProp(REG, ToU32(1))
      [] defect = "Compatible" -> TProp(COMPATIBLE, S_x)
      [] defect = "Model" -> TProp(MODEL, S_x)
      [] defect = "Ranges" -> TProp(RANGES, ToU32(1))
      [] defect = "Status" -> TProp(STATUS, Str(S_x))
      [] defect = "BadPHandle" -> TProp(PHANDLE, <<>>)

\* a device node with a phandle and children
Dev(name, handle, kids) == TNode(name, TProp(PHANDLE, ToU32(handle)), kids)
\* a device node with children and nothing else
Plain(name, kids) == TNode(name, <<>>, kids)
\* a device node with a malformed property
Broken(name, defect) == TNode(name, DefectProp(defect), <<>>)
\* a higher-level cache node of /cpus
CacheOf(name, handle) ==
    TNode(name, TProp(COMPATIBLE, Str(STR_cache)) \o TProp(PHANDLE, ToU32(handle))
                    \o TProp(CACHE_LEVEL, ToU32(2)), <<>>)

DeviceBlob(devices) == DtbOf(TreeOf(<<>>, devices) \o TEnd)
PHandles == 1..MaxPHandle

\* two device nodes with the phandles p and q: parent and child, siblings
\* below the root, siblings below /soc, and nodes of two subtrees
ParentChild(p, q) == DeviceBlob(Dev(N_soc, p, Dev(N_a, q, <<>>)))
RootSiblings(p, q) == DeviceBlob(Dev(N_a, p, <<>>) \o Dev(N_b, q, <<>>))
DeepSiblings(p, q) == DeviceBlob(Plain(N_soc, Dev(N_a, p, <<>>) \o Dev(N_b, q, <<>>)))
DeepAndRoot(p, q) == DeviceBlob(Plain(N_soc, Dev(N_a, p, <<>>)) \o Dev(N_b, q, <<>>))
TwoSubtrees(p, q) ==
    DeviceBlob(Plain(N_d, Dev(N_b, p, <<>>)) \o Plain(N_soc, Dev(N_a, q, <<>>)))
PairBlobs(p, q) ==
    {ParentChild(p, q), RootSiblings(p, q), DeepSiblings(p, q), DeepAndRoot(p, q),
     TwoSubtrees(p, q)}
PHandleCorpus == UNION {PairBlobs(p, q) : p \in PHandles, q \in PHandles}
\* two distinct device nodes carry the same phandle
DuplicatePHandleTrees == UNION {PairBlobs(p, p) : p \in PHandles}

\* a device node with a malformed property: a child of the root, a child of
\* the device node /soc, a grandchild of /soc
DefectAtRoot == {DeviceBlob(Broken(N_a, defect)) : defect \in Defects}
DefectBelowDevice ==
    {DeviceBlob(Plain(N_soc, Broken(N_a, defect))) : defect \in Defects}
        \cup {DeviceBlob(Plain(N_soc, Plain(N_a, Broken(N_b, defect)))) : defect \in Defects}
\* the descendants of the device node /soc raise an error
DescendantErrors == DefectBelowDevice \cup {DeepSiblings(p, p) : p \in PHandles}

\* the cache nodes l2 and l3 of /cpus and the device node /a, with phandles
CacheBlob(p, q, r) ==
    DtbOf(TreeOf(CacheOf(N_l2, p) \o CacheOf(N_l3, q), Dev(N_a, r, <<>>)) \o TEnd)
CacheCorpus == {CacheBlob(p, q, r) : p \in PHandles, q \in PHandles, r \in PHandles}

InitTree ==
    \E d \in PHandleCorpus \cup DefectAtRoot \cup DefectBelowDevice \cup CacheCorpus
                \cup BaseCorpus :
        Start(d)

SpecTree == InitTree /\ [][Next]_vars

---------------------------------------------------------------------------
(* Properties of the resolution of device nodes and of phandles *)

\* C8: when a device node is resolved, an error raised by one of its
\* descendants (a malformed reg, ranges, status, compatible, model or phandle,
\* or a duplicate phandle) is returned as an error value of the whole parse:
\* from_bytes fails and does not panic.
C8_DescendantErrorsReturned ==
    (dtb \in DescendantErrors /\ pc = "done") => (IsErr(Unwrap(result)) /\ ~Panicked)

\* C9: every tree in which two distinct device nodes carry the same phandle
\* value makes from_bytes fail with DuplicatePHandle, whichever node is
\* resolved first: parent and child, siblings, nodes of two subtrees.
C9_DuplicatePHandleFails ==
    (dtb \in DuplicatePHandleTrees /\ pc = "done") =>
        Failed(<<"Node", "Child", "DuplicatePHandle">>)

\* the phandles of the nodes of a resolved root: the cache nodes by their key
\* in higher_caches, the device nodes by their key in phandles
PHandlesOfTree(root) == Keys(root.higher_caches) \o Keys(root.phandles)
NoRepeat(s) == \A i, j \in 1..Len(s) : s[i] = s[j] => i = j

\* C10: after every successful parse no two nodes of the tree, of any kind,
\* carry the same phandle value: two cache nodes, or a cache node and a device
\* node, with equal phandles make the parse fail.
C10_PHandlesUnique ==
    Succeeded => NoRepeat(PHandlesOfTree(Unwrap(result).val.root))

---------------------------------------------------------------------------
(* Specification SpecCpus: from_bytes on well-formed blobs whose tree       *)
(* resolves up to /cpus: the cell counts of /cpus, its CPU nodes and its    *)
(* cache nodes vary, and so does boot_cpuid_phys.                          *)

\* a #size-cells of /cpus that is a number is 0..MaxCells
MaxCells == 2

\* a property that may be absent: <<>>, or <<value>>
PropOpt(key, choice) == IF choice = <<>> THEN <<>> ELSE TProp(key, choice[1])

\* the structure block of a tree whose /cpus holds the given properties and
\* children
CpusTree(props, kids) ==
    TNode(N_root, RootProps, TNode(N_cpus, props, kids) \o ReservedOf(<<>>)) \o TEnd

\* a #size-cells that is not exactly 0: absent, a number of 1 and more, no
\* cell, two cells, a number that does not fit a u8
SizeNotZero ==
    {<<>>, << <<>> >>, <<ToU32(0) \o ToU32(0)>>, <<ToU32(256)>>}
        \cup {<<ToU32(n)>> : n \in 1..MaxCells}
AddressChoices == {<<>>, <<ToU32(1)>>, <<ToU32(2)>>}
\* the children of /cpus: none, a CPU, a node named cpu@0 that is no CPU, a
\* node named l2 that is no cache
CpusKids == {<<>>, CpuOf(N_cpu0, 0), Plain(N_cpu0, <<>>), Plain(N_l2, <<>>)}

CellsBlob(address, size, kids) ==
    DtbOf(CpusTree(PropOpt(ADDRESS_CELLS, address) \o PropOpt(SIZE_CELLS, size), kids))
\* /cpus has a #size-cells that is not exactly 0
BadSizeCells ==
    {CellsBlob(address, size, kids) :
        address \in AddressChoices, size \in SizeNotZero, kids \in CpusKids}
\* /cpus has a #size-cells of 0
ZeroSizeCells ==
    {CellsBlob(address, <<ToU32(0)>>, kids) : address \in AddressChoices, kids \in CpusKids}
\* /cpus has a #size-cells of 0 and no #address-cells
NoAddressCells == {CellsBlob(<<>>, <<ToU32(0)>>, kids) : kids \in CpusKids}

\* a CPU node with more properties
CpuWith(name, id, props) ==
    TNode(name, TProp(DEVICE_TYPE, Str(STR_cpu)) \o TProp(REG, ToU32(id)) \o props, <<>>)
\* the structure block of a tree whose /cpus declares 1 and 0 cells and holds
\* the given baseline properties and children
CpusOfBase(props, kids) ==
    CpusTree(TProp(ADDRESS_CELLS, ToU32(1)) \o TProp(SIZE_CELLS, ToU32(0)) \o props, kids)

S_ab == <<97, 44, 98>>    \* "a,b"
\* a status: none, okay, disabled, fail
StatusChoices == {<<>>, <<Str(STR_okay)>>, <<Str(STR_disabled)>>, <<Str(STR_fail)>>}
\* an enable-method: none, the vendor method "a,b", spin-table with its
\* cpu-release-addr
NoMethod == <<>>
MethodChoices ==
    {NoMethod, TProp(ENABLE_METHOD, Str(S_ab)),
     TProp(ENABLE_METHOD, Str(STR_spin_table)) \o TProp(CPU_RELEASE_ADDR, ToU32(0) \o ToU32(8))}
\* <<status of /cpus, enable-method of /cpus, status of cpu@0, enable-method
\* of cpu@0>>
StatusTuples ==
    {<<>>, <<Str(STR_okay)>>, <<Str(STR_disabled)>>} \X {NoMethod, TProp(ENABLE_METHOD, Str(S_ab))}
        \X StatusChoices \X MethodChoices
StatusBlob(q) ==
    DtbOf(CpusOfBase(PropOpt(STATUS, q[1]) \o q[2],
                     CpuWith(N_cpu0, 0, PropOpt(STATUS, q[3]) \o q[4])))
\* the status of cpu@0 after the merge is its own, else the one of /cpus
MergedStatus(q) == IF q[3] # <<>> THEN q[3] ELSE q[1]
\* cpu@0 is disabled after the merge, and neither it nor /cpus has an
\* enable-method
DisabledNoMethod ==
    {StatusBlob(q) : q \in {t \in StatusTuples :
        MergedStatus(t) = <<Str(STR_disabled)>> /\ t[2] = NoMethod /\ t[4] = NoMethod}}
StatusCorpus == {StatusBlob(q) : q \in StatusTuples}

\* a higher-level cache node of /cpus of the given level
CacheLevelOf(name, handle, level) ==
    TNode(name, TProp(COMPATIBLE, Str(STR_cache)) \o TProp(PHANDLE, ToU32(handle))
                    \o TProp(CACHE_LEVEL, ToU32(level)), <<>>)
\* the orders of three nodes in the blob
Orders3 == {o \in [1..3 -> 1..3] : \A i, j \in 1..3 : o[i] = o[j] => i = j}
\* <<phandle of the cache b, phandle of the cache l2, next-level-cache of
\* cpu@0, order of the three nodes>>: "b" sorts before "cpu@0", "l2" after
OrderTuples == PHandles \X PHandles \X (1..(MaxPHandle + 1)) \X Orders3
OrderNodes(t) ==
    <<CacheLevelOf(N_b, t[1], 2), CacheLevelOf(N_l2, t[2], 3),
      CpuWith(N_cpu0, 0, TProp(NEXT_LEVEL_CACHE, ToU32(t[3])))>>
OrderBlob(t) ==
    DtbOf(CpusOfBase(<<>>, OrderNodes(t)[t[4][1]] \o OrderNodes(t)[t[4][2]]
                               \o OrderNodes(t)[t[4][3]]))
OrderCorpus == {OrderBlob(t) : t \in OrderTuples}

\* boot_cpuid_phys is 0..MaxBoot
MaxBoot == 2
\* a well-formed blob around a structure block, with the given boot_cpuid_phys
DtbBoot(struct, boot) ==
    PadTo(HeaderBytes(FDT_HEADER_MAGIC, 40 + Len(struct) + Len(StringsBlock), 40,
                      40 + Len(struct), 16, boot, Len(StringsBlock), Len(struct))
              \o struct \o StringsBlock, 8)
N_cpu == <<99, 112, 117>>    \* "cpu"
\* the CPU nodes of /cpus with the set of their reg: none, one, two in either
\* order, two of one reg
BootFamilies ==
    {<<<<>>, {}>>, <<CpuOf(N_cpu0, 0), {0}>>, <<CpuOf(N_cpu1, 1), {1}>>,
     <<CpuOf(N_cpu0, 0) \o CpuOf(N_cpu1, 1), {0, 1}>>,
     <<CpuOf(N_cpu1, 1) \o CpuOf(N_cpu0, 0), {0, 1}>>,
     <<CpuOf(N_cpu, 1) \o CpuOf(N_cpu1, 1), {1}>>}
BootKids == {f[1] : f \in BootFamilies}
BootBlob(kids, boot) == DtbBoot(CpusOfBase(<<>>, kids), boot)
BootCorpus == {BootBlob(kids, boot) : kids \in BootKids, boot \in 0..MaxBoot}
\* the blobs of which no CPU has the reg boot
BootMissing(boot) == {BootBlob(f[1], boot) : f \in {g \in BootFamilies : boot \notin g[2]}}

InitCpus ==
    \E d \in BadSizeCells \cup ZeroSizeCells \cup StatusCorpus \cup OrderCorpus
               \cup BootCorpus \cup BaseCorpus :
        Start(d)

SpecCpus == InitCpus /\ [][Next]_vars

---------------------------------------------------------------------------
(* Properties of /cpus *)

\* C11: every tree whose /cpus has a #size-cells that is not exactly 0 (a
\* number other than 0, a malformed value, or none, which counts as 1) makes
\* from_bytes fail with CpuRoot, whatever the children of /cpus: no CPU and no
\* cache is resolved before.
C11_SizeCellsNotZero ==
    (dtb \in BadSizeCells /\ pc = "done") => Failed(<<"Node", "CpuRoot">>)

\* no #size-cells and no #address-cells, and a CPU whose resolution would not
\* return
C11_Witness ==
    /\ dtb = CellsBlob(<<>>, <<>>, CpuOf(N_cpu0, 0))
    /\ Failed(<<"Node", "CpuRoot">>)

\* C12: every tree whose /cpus has no #address-cells makes from_bytes fail
\* with CpuRoot, even when #size-cells is 0: the default of 2 is not applied.
C12_AddressCellsRequired ==
    (dtb \in NoAddressCells /\ pc = "done") => Failed(<<"Node", "CpuRoot">>)

Cpu0(root) == Unwrap(Map_get("bytes", root.cpus, ToU32(0)))

\* C14: the cache children of /cpus are resolved before its CPU children: a
\* next-level-cache of cpu@0 that names the phandle of a cache resolves to
\* that cache, whatever the order of the caches and the CPU in the blob; a
\* next-level-cache that names the phandle of no cache makes from_bytes fail
\* with NextLevelCache.
C14_NextLevelCacheResolves ==
    pc = "done" =>
        \A t \in OrderTuples : dtb = OrderBlob(t) =>
            IF t[3] \notin {t[1], t[2]}
            THEN Failed(<<"Node", "Cpu", "NextLevelCache">>)
            ELSE /\ Succeeded
                 /\ IsSome(Cpu0(Unwrap(result).val.root).next_cache)
                 /\ t[3] = t[1] =>
                        Unwrap(Cpu0(Unwrap(result).val.root).next_cache).level = ToU32(2)
                 /\ t[3] = t[2] =>
                        Unwrap(Cpu0(Unwrap(result).val.root).next_cache).level = ToU32(3)

\* the caches carry distinct phandles
C14_DistinctResolve ==
    pc = "done" =>
        \A t \in OrderTuples : (dtb = OrderBlob(t) /\ t[1] # t[2]) =>
            IF t[3] \notin {t[1], t[2]}
            THEN Failed(<<"Node", "Cpu", "NextLevelCache">>)
            ELSE /\ Succeeded
                 /\ Cpu0(Unwrap(result).val.root).next_cache
                        = Some([cache |-> [size |-> None, sets |-> None, block_size |-> None,
                                           line_size |-> None],
                                level |-> ToU32(IF t[3] = t[1] THEN 2 ELSE 3),
                                children |-> Map_new, properties |-> Map_new])

\* C16: after every successful parse boot_cpu is a CPU node of the cpus of
\* the root whose reg is the boot_cpuid_phys of the header; when no CPU of the
\* tree has that reg, from_bytes fails with BootCpu(boot_cpuid_phys) and
\* returns no tree.
C16_BootCpu ==
    /\ Succeeded =>
          /\ \E i \in 1..Len(Unwrap(result).val.root.cpus) :
                 Unwrap(result).val.root.cpus[i][2] = Unwrap(result).val.boot_cpu
          /\ Unwrap(result).val.boot_cpu.reg = header.boot_cpuid_phys
    /\ pc = "done" =>
          \A boot \in 0..MaxBoot :
              /\ dtb \in BootMissing(boot) =>
                    (Failed(<<"BootCpu">>) /\ Unwrap(result).val = ToU32(boot))
              /\ dtb \in {BootBlob(kids, boot) : kids \in BootKids} \ BootMissing(boot) =>
                    (Succeeded /\ Unwrap(result).val.boot_cpu.reg = ToU32(boot))

\* the boot CPU is the second CPU of the blob
C16_Witness ==
    /\ dtb = BootBlob(CpuOf(N_cpu0, 0) \o CpuOf(N_cpu1, 1), 1)
    /\ Succeeded
    /\ Unwrap(result).val.boot_cpu.reg = ToU32(1)

---------------------------------------------------------------------------
(* Specification SpecPaths: from_bytes on well-formed blobs whose tree      *)
(* resolves and holds /aliases and /chosen: the paths they name vary.       *)

N_aliases == <<97, 108, 105, 97, 115, 101, 115>>    \* "aliases"
N_chosen == <<99, 104, 111, 115, 101, 110>>    \* "chosen"
P_a == <<47, 97>>    \* "/a"
P_soc_a == <<47, 115, 111, 99, 47, 97>>    \* "/soc/a"
P_soc_b == <<47, 115, 111, 99, 47, 98>>    \* "/soc/b"
P_missing == <<47, 109, 105, 115, 115, 105, 110, 103, 47, 110, 111, 100, 101>>    \* "/missing/node"

\* the device nodes of the tree: /a with a phandle, /soc, /soc/a with the
\* property u
PathDevices == Dev(N_a, 1, <<>>) \o Plain(N_soc, TNode(N_a, TProp(K_u, <<>>), <<>>))
\* the paths that name a node of the tree, the paths that name none
PathsFound == {P_a, P_soc_a}
PathsDangling == {P_soc_b, P_missing}
\* a path property: none, or a path
PathChoices == {<<>>} \cup {<<Str(path)>> : path \in PathsFound \cup PathsDangling}
IsDangling(choice) == choice # <<>> /\ choice[1] \in {Str(path) : path \in PathsDangling}
\* <<the alias u, the alias v, the stdout-path of /chosen>>; without a
\* stdout-path the tree has no /chosen
PathTuples == PathChoices \X PathChoices \X PathChoices
PathBlob(t) ==
    DtbOf(TNode(N_root, RootProps,
                TNode(N_aliases, PropOpt(K_u, t[1]) \o PropOpt(K_v, t[2]), <<>>)
                \o (IF t[3] = <<>> THEN <<>>
                    ELSE TNode(N_chosen, TProp(STDOUT_PATH, t[3][1]), <<>>))
                \o CpusOf(CpuOf(N_cpu0, 0)) \o ReservedOf(<<>>) \o PathDevices)
          \o TEnd)
PathCorpus == {PathBlob(t) : t \in PathTuples}

InitPaths == \E d \in PathCorpus \cup BaseCorpus : Start(d)

SpecPaths == InitPaths /\ [][Next]_vars

\* the device node a path of PathsFound names, in a resolved root
NodeAt(root, path) ==
    IF path = Str(P_a) THEN Unwrap(Map_get("name", root.children, NameRefOf(N_a, None)))
    ELSE Unwrap(Map_get("name",
                        Unwrap(Map_get("name", root.children, NameRefOf(N_soc, None))).children,
                        NameRefOf(N_a, None)))
\* the alias is absent when its path is absent or names no node, and is the
\* node its path names otherwise
AliasAsNamed(root, key, choice) ==
    IF choice = <<>> \/ IsDangling(choice)
    THEN IsNone(Map_get("name", root.aliases, NameRefOf(key, None)))
    ELSE Map_get("name", root.aliases, NameRefOf(key, None)) = Some(NodeAt(root, choice[1]))

\* C15: a path that names no node of the tree makes from_bytes fail when it
\* is the stdout-path of /chosen; when it is the value of a property of
\* /aliases, from_bytes succeeds, that alias is absent from the aliases of the
\* root and the other alias is the node its path names.
C15_DanglingPaths ==
    pc = "done" =>
        \A t \in PathTuples : dtb = PathBlob(t) =>
            IF IsDangling(t[3]) THEN IsErr(Unwrap(result))
            ELSE /\ Succeeded
                 /\ AliasAsNamed(Unwrap(result).val.root, K_u, t[1])
                 /\ AliasAsNamed(Unwrap(result).val.root, K_v, t[2])

\* the half of C15 about /aliases, whatever /chosen holds
C15_AliasesBestEffort ==
    pc = "done" =>
        \A t \in PathTuples : dtb = PathBlob(t) =>
            /\ Succeeded
            /\ AliasAsNamed(Unwrap(result).val.root, K_u, t[1])
            /\ AliasAsNamed(Unwrap(result).val.root, K_v, t[2])

---------------------------------------------------------------------------
(* Specification SpecMap: from_bytes on well-formed blobs whose root holds  *)
(* properties of distinct names in every order: the Map of the properties   *)
(* of the root as the Prop tokens are inserted.                             *)

\* the root holds up to MaxKeys properties
MaxKeys == 3
MapKeys == {MODEL, RANGES, REG, K_u, K_v}
\* the value of a key: no two keys have the same
ValueOf(key) == ToU32(NameOff(key))

RECURSIVE KeyOrders(_)
\* the sequences of up to n distinct keys
KeyOrders(n) ==
    IF n = 0 THEN {<<>>}
    ELSE KeyOrders(n - 1) \cup
         {Append(x[1], x[2]) : x \in {y \in KeyOrders(n - 1) \X MapKeys :
             Len(y[1]) = n - 1 /\ \A i \in 1..Len(y[1]) : y[1][i] # y[2]}}

RECURSIVE PropsOf(_)
\* the Prop tokens of the keys, in their order
PropsOf(o) == IF Len(o) = 0 THEN <<>> ELSE TProp(o[1], ValueOf(o[1])) \o PropsOf(Tail(o))
MapBlob(o) == DtbOf(TNode(N_root, PropsOf(o), <<>>) \o TEnd)
MapCorpus == {MapBlob(o) : o \in KeyOrders(MaxKeys)}

InitMap == \E d \in MapCorpus \cup BaseCorpus : Start(d)

SpecMap == InitMap /\ [][Next]_vars

RECURSIVE InsertAll(_)
\* the Map after Map::insert of the keys and their values, in their order
InsertAll(o) ==
    IF Len(o) = 0 THEN Map_new
    ELSE Map_insert("bytes", InsertAll(Take(o, Len(o) - 1)), o[Len(o)],
                    SliceOf(ValueOf(o[Len(o)]), 0)).self

\* the number of Prop tokens handled
PropsSeen == Len(SelectSeq(seen, LAMBDA kind : kind = "Prop"))
SameKeys(o, q) == {o[i] : i \in 1..Len(o)} = {q[i] : i \in 1..Len(q)}

\* C17: the Map is insertion-order independent: the properties of the root
\* inserted so far iterate in ascending order of their key, get gives each
\* inserted key its value and no other key a value, and every other order of
\* inserting the same pairs gives the same iteration sequence and the same
\* result of get.
C17_InsertionOrderIndependent ==
    (pc = "tokens" /\ Len(properties) = 1) =>
        \A o \in KeyOrders(MaxKeys) : dtb = MapBlob(o) =>
            /\ Len(Map_iter(properties[1])) = PropsSeen
            /\ \A i, j \in 1..PropsSeen :
                   i < j => LexLess(Map_iter(properties[1])[i][1], Map_iter(properties[1])[j][1])
            /\ \A key \in MapKeys :
                   Map_get("bytes", properties[1], key) =
                       IF \E i \in 1..PropsSeen : o[i] = key
                       THEN Some(SliceOf(ValueOf(key), 0)) ELSE None
            /\ \A q \in KeyOrders(MaxKeys) : SameKeys(q, Take(o, PropsSeen)) =>
                   /\ Map_iter(InsertAll(q)) = Map_iter(properties[1])
                   /\ \A key \in MapKeys :
                          Map_get("bytes", InsertAll(q), key)
                              = Map_get("bytes", properties[1], key)

\* three properties inserted in descending order of their key
C17_Witness ==
    /\ dtb = MapBlob(<<K_v, REG, MODEL>>)
    /\ pc = "tokens"
    /\ Len(properties) = 1
    /\ Keys(Map_iter(properties[1])) = <<MODEL, REG, K_v>>

---------------------------------------------------------------------------
(* Specification SpecCells: from_bytes on well-formed blobs whose tree      *)
(* resolves up to its device nodes: the #address-cells and #size-cells of   *)
(* the nodes and the reg of the device nodes vary.                          *)

\* a reg holds up to MaxTriples triples of cells
MaxTriples == 2

\* the cell counts a node declares: <<#address-cells, #size-cells>>, each
\* absent or a value
NoDecl == <<<<>>, <<>>>>
Decl(address, size) == <<<<ToU32(address)>>, <<ToU32(size)>>>>
DeclProps(decl) == PropOpt(ADDRESS_CELLS, decl[1]) \o PropOpt(SIZE_CELLS, decl[2])
\* the number of cells of an address and of a size under a declaration
AddressOf(decl) == IF decl[1] = <<>> THEN 2 ELSE decl[1][1][4]
SizeOf(decl) == IF decl[2] = <<>> THEN 1 ELSE decl[2][1][4]

N_memory == <<109, 101, 109, 111, 114, 121>>    \* "memory"
\* the structure block of a tree that resolves, by the declaration of the
\* root and of /reserved-memory, the extra properties of the root, the
\* node /cpus, the children of /reserved-memory and the other children of the
\* root
DeclTree(decl, props, cpus, reserved, devices) ==
    TNode(N_root, RootProps \o DeclProps(decl) \o props,
          cpus \o TNode(N_reserved, DeclProps(decl) \o TProp(RANGES, <<>>), reserved)
               \o devices) \o TEnd
\* a device node with a reg and the cell counts it declares
RegNode(name, decl, cells, kids) == TNode(name, DeclProps(decl) \o TProp(REG, cells), kids)

\* triples of cells <<hi, lo, s>>
Triples ==
    {<<ToU32(0), ToU32(268435456), ToU32(4096)>>, <<ToU32(268435456), ToU32(0), ToU32(0)>>,
     <<ToU32(1), ToU32(2), ToU32(3)>>, <<<<255, 255, 255, 255>>, <<255, 255, 255, 254>>,
                                        <<255, 255, 255, 253>>>>}
RECURSIVE TripleSeqs(_)
\* the sequences of up to n triples
TripleSeqs(n) ==
    IF n = 0 THEN {<<>>}
    ELSE {<<>>} \cup {<<t>> \o ts : t \in Triples, ts \in TripleSeqs(n - 1)}
RECURSIVE CellsOf(_)
\* the cells of the triples, in order
CellsOf(ts) ==
    IF Len(ts) = 0 THEN <<>> ELSE ts[1][1] \o ts[1][2] \o ts[1][3] \o CellsOf(Tail(ts))
\* where the node with the reg is: below the root, below /soc which declares
\* 2 and 1 cells, below /soc which declares nothing
Places == {"root", "declared", "default"}
TripleBlob(place, ts) ==
    DtbOf(DeclTree(NoDecl, <<>>, CpusOf(CpuOf(N_cpu0, 0)), <<>>,
                   IF place = "root" THEN RegNode(N_a, NoDecl, CellsOf(ts), <<>>)
                   ELSE TNode(N_soc, DeclProps(IF place = "declared" THEN Decl(2, 1) ELSE NoDecl),
                              RegNode(N_a, NoDecl, CellsOf(ts), <<>>))))
TripleCorpus == {TripleBlob(place, ts) : place \in Places, ts \in TripleSeqs(MaxTriples)}

\* cells of distinct values
Numbered(n) == Concat([i \in 1..n |-> ToU32(i)])
\* <<declaration of the root, of /soc, of /soc/a, reg of /a, reg of /soc/a>>
ParentTuples ==
    {NoDecl, Decl(2, 1), Decl(1, 1)} \X {NoDecl, Decl(2, 1), Decl(1, 1)} \X {NoDecl, Decl(1, 1)}
        \X {Numbered(2), Numbered(3), Numbered(6)} \X {Numbered(2), Numbered(3), Numbered(6)}
ParentBlob(t) ==
    DtbOf(DeclTree(t[1], <<>>, CpusOf(CpuOf(N_cpu0, 0)), <<>>,
                   RegNode(N_a, NoDecl, t[4], <<>>)
                   \o TNode(N_soc, DeclProps(t[2]), RegNode(N_a, t[3], t[5], <<>>))))
ParentCorpus == {ParentBlob(t) : t \in ParentTuples}

\* a cell count that is present and malformed: no cell, two cells, three
\* bytes, a number that does not fit a u8
MalformedCells == {<<>>, ToU32(1) \o ToU32(1), <<0, 0, 1>>, ToU32(256)}
\* the node that holds it
Kinds == {"root", "cpus", "cache", "cpu", "reserved-memory", "reserved", "memory", "device",
          "parent"}
\* the property where the node is of the kind, nothing elsewhere
At(kind, node, prop) == IF kind = node THEN prop ELSE <<>>
\* the cell counts of /cpus: 1 and 0 where they are not the malformed ones
CpusCells(kind, key) ==
    (IF kind = "cpus" /\ key = ADDRESS_CELLS THEN <<>> ELSE TProp(ADDRESS_CELLS, ToU32(1)))
    \o (IF kind = "cpus" /\ key = SIZE_CELLS THEN <<>> ELSE TProp(SIZE_CELLS, ToU32(0)))
MalformedTree(kind, key, prop) ==
    TNode(N_root, RootProps \o At(kind, "root", prop),
          TNode(N_cpus, CpusCells(kind, key) \o At(kind, "cpus", prop),
                (IF kind = "cache"
                 THEN TNode(N_l2, TProp(COMPATIBLE, Str(STR_cache)) \o TProp(PHANDLE, ToU32(1))
                                      \o TProp(CACHE_LEVEL, ToU32(2)) \o prop, <<>>)
                 ELSE <<>>)
                \o CpuWith(N_cpu0, 0, At(kind, "cpu", prop)))
          \o TNode(N_reserved, TProp(RANGES, <<>>) \o At(kind, "reserved-memory", prop),
                   IF kind = "reserved" THEN TNode(N_b, TProp(REG, Numbered(3)) \o prop, <<>>)
                   ELSE <<>>)
          \o (IF kind = "memory"
              THEN TNode(N_memory, TProp(DEVICE_TYPE, Str(N_memory)) \o TProp(REG, Numbered(3))
                                       \o prop, <<>>)
              ELSE <<>>)
          \o (IF kind = "device" THEN TNode(N_a, prop, <<>>) ELSE <<>>)
          \o (IF kind = "parent" THEN TNode(N_soc, prop, TNode(N_a, <<>>, <<>>)) ELSE <<>>))
    \o TEnd
MalformedBlob(kind, key, value) == DtbOf(MalformedTree(kind, key, TProp(key, value)))
MalformedCorpus ==
    {MalformedBlob(kind, key, value) :
        kind \in Kinds, key \in {ADDRESS_CELLS, SIZE_CELLS}, value \in MalformedCells}

InitCells ==
    \E d \in TripleCorpus \cup ParentCorpus \cup MalformedCorpus \cup BaseCorpus : Start(d)

SpecCells == InitCells /\ [][Next]_vars

\* the reg of the device node /a, or /soc/a, of a resolved root
RegOf(root, place) ==
    IF place = "root"
    THEN Unwrap(Map_get("name", root.children, NameRefOf(N_a, None))).reg
    ELSE Unwrap(Map_get("name",
                        Unwrap(Map_get("name", root.children, NameRefOf(N_soc, None))).children,
                        NameRefOf(N_a, None))).reg

\* C18: a reg decoded with 2 address cells and 1 size cell maps every triple
\* of cells <<hi, lo, s>> to the pair <<hi * 2^32 + lo, s>> (the 8 big-endian
\* bytes of hi * 2^32 + lo are those of hi, then those of lo), in order.
C18_RegTriples ==
    pc = "done" =>
        \A place \in Places : \A ts \in TripleSeqs(MaxTriples) :
            dtb = TripleBlob(place, ts) =>
                /\ Succeeded
                /\ RegOf(Unwrap(result).val.root, place)
                       = Some([i \in 1..Len(ts) |->
                                 <<ts[i][1] \o ts[i][2], Zero32 \o ts[i][3]>>])

\* the cells 0x00000000, 0x10000000, 0x00001000 decode to (0x10000000, 0x1000)
C18_Witness ==
    /\ dtb = TripleBlob("declared", <<<<ToU32(0), ToU32(268435456), ToU32(4096)>>>>)
    /\ Succeeded
    /\ RegOf(Unwrap(result).val.root, "declared")
           = Some(<<<<Zero32 \o ToU32(268435456), Zero32 \o ToU32(4096)>>>>)

\* C19: a #address-cells or #size-cells that is present and malformed, on a
\* node of any kind, makes from_bytes fail, even when the node has no
\* children or its children have no reg and no ranges.
C19_MalformedCellsFail ==
    (dtb \in MalformedCorpus /\ pc = "done") => IsErr(Unwrap(result))

\* the kinds of node on which a malformed cell count makes from_bytes fail
C19_MalformedCellsFailWhereRead ==
    pc = "done" =>
        \A kind \in Kinds : \A key \in {ADDRESS_CELLS, SIZE_CELLS} : \A value \in MalformedCells :
            dtb = MalformedBlob(kind, key, value) =>
                IF kind \in {"root", "cpus", "cache", "reserved-memory", "reserved"}
                THEN IsErr(Unwrap(result)) ELSE Succeeded

\* b as 8 big-endian bytes
Pad8(b) == Zeros(8 - Len(b)) \o b
RECURSIVE PairsOf(_, _, _)
\* the pairs <<address, size>> of a reg of the given numbers of cells
PairsOf(cells, address, size) ==
    IF Len(cells) = 0 THEN <<>>
    ELSE <<<<Pad8(Take(cells, 4 * address)),
             Pad8(SubSeq(cells, 4 * address + 1, 4 * (address + size)))>>>>
         \o PairsOf(Drop(cells, 4 * (address + size)), address, size)
\* the reg is a whole number of pairs under the declaration
Fits(cells, decl) == (Len(cells) \div 4) % (AddressOf(decl) + SizeOf(decl)) = 0

\* C20: the reg of a node is decoded with the #address-cells and #size-cells
\* its direct parent declares, 2 and 1 when the parent declares none: the reg
\* of /a with those of the root, the reg of /soc/a with those of /soc,
\* whatever /soc/a and the root declare.
C20_RegUsesParentCells ==
    pc = "done" =>
        \A t \in ParentTuples : dtb = ParentBlob(t) =>
            IF Fits(t[4], t[1]) /\ Fits(t[5], t[2])
            THEN /\ Succeeded
                 /\ RegOf(Unwrap(result).val.root, "root")
                        = Some(PairsOf(t[4], AddressOf(t[1]), SizeOf(t[1])))
                 /\ RegOf(Unwrap(result).val.root, "declared")
                        = Some(PairsOf(t[5], AddressOf(t[2]), SizeOf(t[2])))
            ELSE ~Succeeded

\* the reg of /soc/a is decoded with the cell counts of /soc, and the reg of
\* /a with 2 and 1 cells whatever the root declares
C20_RegBelowRootUsesDefault ==
    pc = "done" =>
        \A t \in ParentTuples : dtb = ParentBlob(t) =>
            IF Fits(t[4], NoDecl) /\ Fits(t[5], t[2])
            THEN /\ Succeeded
                 /\ RegOf(Unwrap(result).val.root, "root") = Some(PairsOf(t[4], 2, 1))
                 /\ RegOf(Unwrap(result).val.root, "declared")
                        = Some(PairsOf(t[5], AddressOf(t[2]), SizeOf(t[2])))
            ELSE ~Succeeded

---------------------------------------------------------------------------
(* memory_reservation.rs.  The block is a slice of u64, each its 8          *)
(* big-endian bytes; an entry is <<address, size>>.                         *)

RECURSIVE array_chunks2(_)
\* array_chunks::<2>(): the pairs of the slice, a last odd element left out
array_chunks2(value) ==
    IF Len(value) < 2 THEN <<>>
    ELSE <<<<value[1], value[2]>>>> \o array_chunks2(Drop(value, 2))

\* Ord of (u64, u64): by address, then by size
EntryLess(a, b) == LexLess(a[1] \o a[2], b[1] \o b[2])

RECURSIVE SortEntries(_)
\* entries.sort_unstable(): equal entries are the same value
SortEntries(entries) ==
    IF Len(entries) <= 1 THEN entries
    ELSE Let([sorted \in {SortEntries(Take(entries, Len(entries) - 1))} |->
         Let([x \in {entries[Len(entries)]} |->
         Let([above \in {{i \in 1..Len(sorted) : EntryLess(x, sorted[i])}} |->
         InsertAt(sorted, IF above = {} THEN Len(sorted) + 1
                          ELSE CHOOSE i \in above : \A j \in above : i <= j, x)])])])

\* TryFrom<&[u64]> for MemoryReservations
MemoryReservations_try_from(value) ==
    IF Len(value) % 2 # 0 THEN Err(<<>>)
    ELSE Let([entries \in {array_chunks2(value)} |->
         IF Len(entries) = 0 \/ entries[Len(entries)] # <<Zero64, Zero64>> THEN Err(<<>>)
         ELSE Ok(SortEntries(Take(entries, Len(entries) - 1)))])

---------------------------------------------------------------------------
(* Specification SpecReservations: MemoryReservations::try_from on the      *)
(* blocks of up to MaxWords u64 of the values 0..MaxWord.                   *)

MaxWords == 6
MaxWord == 2

\* the state when a function is called with the input d: pc names the call
StartCall(call, d) ==
    /\ dtb = d
    /\ pc = call
    /\ bytes = SliceOf(<<>>, 0)
    /\ dt_strings = <<>>
    /\ header = NoHeader
    /\ properties = <<>>
    /\ children = <<>>
    /\ names = <<>>
    /\ device_tree = Err(<<"EoF">>)
    /\ result = None
    /\ seen = <<>>

\* the function returned r
ReturnCall(r) ==
    /\ Return(r)
    /\ UNCHANGED <<dtb, bytes, dt_strings, header, properties, children, names,
                   device_tree, seen>>

U64Of(n) == Zero32 \o ToU32(n)
RECURSIVE Blocks(_)
\* the slices of up to n u64
Blocks(n) ==
    IF n = 0 THEN {<<>>}
    ELSE {<<>>} \cup {<<U64Of(w)>> \o b : w \in 0..MaxWord, b \in Blocks(n - 1)}

InitReservations == \E d \in Blocks(MaxWords) : StartCall("reservations", d)

\* MemoryReservations::try_from(dtb)
TryFromReservations ==
    /\ pc = "reservations"
    /\ ReturnCall(MemoryReservations_try_from(dtb))

NextReservations == TryFromReservations

SpecReservations == InitReservations /\ [][NextReservations]_vars

\* the entries of a block of whole pairs, and the index of its first (0,0)
\* entry, 0 when it has none
EntriesOf(block) == array_chunks2(block)
FirstTerminator(entries) ==
    IF \E i \in 1..Len(entries) : entries[i] = <<Zero64, Zero64>>
    THEN CHOOSE i \in 1..Len(entries) :
            /\ entries[i] = <<Zero64, Zero64>>
            /\ \A j \in 1..(i - 1) : entries[j] # <<Zero64, Zero64>>
    ELSE 0
\* the number of times e occurs in s
Occurrences(s, e) == Cardinality({i \in 1..Len(s) : s[i] = e})
\* out holds the entries of s, sorted by address
SortedByAddress(out, s) ==
    /\ Len(out) = Len(s)
    /\ \A i \in 1..Len(s) : Occurrences(out, s[i]) = Occurrences(s, s[i])
    /\ \A i, j \in 1..Len(out) : i < j => ~LexLess(out[j][1], out[i][1])

\* C21: decoding a memory reservation block of whole pairs returns exactly
\* the entries that precede the first (0,0) entry, sorted by address, so that
\* the list never holds a (0,0) entry; a block without a (0,0) entry is
\* rejected.
C21_ReservationsUpToTerminator ==
    (pc = "done" /\ Len(dtb) % 2 = 0) =>
        IF FirstTerminator(EntriesOf(dtb)) = 0 THEN IsErr(Unwrap(result))
        ELSE /\ Succeeded
             /\ SortedByAddress(Unwrap(result).val,
                                Take(EntriesOf(dtb), FirstTerminator(EntriesOf(dtb)) - 1))
             /\ \A i \in 1..Len(Unwrap(result).val) :
                    Unwrap(result).val[i] # <<Zero64, Zero64>>

\* what the code returns: the block is accepted exactly when it is of whole
\* pairs and its last entry is (0,0), and the list is of all the entries
\* before the last, sorted
C21_ReservationsUpToLast ==
    pc = "done" =>
        IF Len(dtb) % 2 = 0 /\ Len(dtb) > 0
           /\ EntriesOf(dtb)[Len(dtb) \div 2] = <<Zero64, Zero64>>
        THEN /\ Succeeded
             /\ SortedByAddress(Unwrap(result).val, Take(EntriesOf(dtb), Len(dtb) \div 2 - 1))
        ELSE IsErr(Unwrap(result))

---------------------------------------------------------------------------
(* Specification SpecCellFns: U32ByteSlice::into_cells_slice and            *)
(* U32ByteSlice::consume_cells on the slices of up to MaxBufCells cells,    *)
(* with and without padding, and cell counts of 0..MaxCount.                *)

MaxBufCells == 4
MaxFields == 3
MaxCount == 3

\* n cells of distinct values whose last three bytes are zero
CellsBuf(n) == Concat([i \in 1..n |-> <<i, 0, 0, 0>>])
\* the slices U32ByteSlice::new makes of them: the padding is 0..3 bytes of
\* the last cell
Buffers ==
    {SliceOf(CellsBuf(n), padding) : n \in 0..MaxBufCells, padding \in 0..0}
    \cup {SliceOf(CellsBuf(n), padding) : n \in 1..MaxBufCells, padding \in 1..3}
RECURSIVE CountSeqs(_)
\* the lists of 1..n cell counts
CountSeqs(n) ==
    IF n = 1 THEN {<<c>> : c \in 0..MaxCount}
    ELSE CountSeqs(n - 1) \cup
         {<<c>> \o cs : c \in 0..MaxCount, cs \in {x \in CountSeqs(n - 1) : Len(x) = n - 1}}

\* the input of a call is <<function, slice, argument>>
InitCellFns ==
    \/ \E s \in Buffers : \E counts \in CountSeqs(MaxFields) :
          StartCall("into_cells_slice", <<"into_cells_slice", s, counts>>)
    \/ \E s \in Buffers : \E n \in 0..(MaxCount + 1) :
          StartCall("consume_cells", <<"consume_cells", s, n>>)

\* self.into_cells_slice(cell_counts)
CallIntoCellsSlice ==
    /\ pc = "into_cells_slice"
    /\ ReturnCall(into_cells_slice(dtb[2], dtb[3]))

\* self.consume_cells(cell_count)
CallConsumeCells ==
    /\ pc = "consume_cells"
    /\ ReturnCall(consume_cells(dtb[2], dtb[3]))

NextCellFns ==
    \/ CallIntoCellsSlice
    \/ CallConsumeCells

SpecCellFns == InitCellFns /\ [][NextCellFns]_vars

\* C22: into_cells_slice with the cell counts c1..cN returns a list exactly
\* when the buffer has no padding and its number of cells is a multiple of
\* c1 + ... + cN (for a total of 0: exactly when the buffer is empty); the
\* list then has len / (c1 + ... + cN) tuples of N fields.  Otherwise it
\* returns None, and the `expect` on consume_cells is never reached.
C22_CellsSliceExactMultiple ==
    (pc = "done" /\ dtb[1] = "into_cells_slice") =>
        /\ ~Panicked
        /\ Succeeded
        /\ IsSome(Unwrap(result).val)
              <=> /\ dtb[2].padding = 0
                  /\ IF SumSeq(dtb[3]) = 0 THEN is_empty(dtb[2])
                     ELSE len_u32s(dtb[2]) % SumSeq(dtb[3]) = 0
        /\ IsSome(Unwrap(result).val) =>
              /\ Len(Unwrap(Unwrap(result).val))
                    = IF SumSeq(dtb[3]) = 0 THEN 0 ELSE len_u32s(dtb[2]) \div SumSeq(dtb[3])
              /\ \A i \in 1..Len(Unwrap(Unwrap(result).val)) :
                    Len(Unwrap(Unwrap(result).val)[i]) = Len(dtb[3])

\* four cells in tuples of a field of one cell and a field of none
C22_Witness ==
    /\ pc = "done"
    /\ dtb = <<"into_cells_slice", SliceOf(CellsBuf(4), 0), <<1, 0>>>>
    /\ Succeeded
    /\ Len(Unwrap(Unwrap(result).val)) = 4

\* C30: consume_cells(n) returns a value only when at least n whole cells
\* are available, and then removes exactly n cells; with fewer than n cells
\* it returns None and leaves the slice unchanged, for every n.
C30_ConsumeCellsAllOrNothing ==
    (pc = "done" /\ dtb[1] = "consume_cells") =>
        IF remaining_u32s(dtb[2]) >= dtb[3]
        THEN /\ IsSome(Unwrap(result).ret)
             /\ Unwrap(result).self = SliceOf(Drop(dtb[2].bytes, 4 * dtb[3]), dtb[2].padding)
        ELSE /\ IsNone(Unwrap(result).ret)
             /\ Unwrap(result).self = dtb[2]

\* what holds of every n up to 2
C30_ConsumeCellsUpToTwo ==
    (pc = "done" /\ dtb[1] = "consume_cells" /\ dtb[3] <= 2) =>
        IF remaining_u32s(dtb[2]) >= dtb[3]
        THEN /\ IsSome(Unwrap(result).ret)
             /\ Unwrap(result).self = SliceOf(Drop(dtb[2].bytes, 4 * dtb[3]), dtb[2].padding)
        ELSE /\ IsNone(Unwrap(result).ret)
             /\ Unwrap(result).self = dtb[2]

---------------------------------------------------------------------------
(* Specification SpecMemory: from_bytes on well-formed blobs whose tree     *)
(* resolves and holds one memory node: its unit-address and the ranges of   *)
(* its reg vary.                                                            *)

\* a reg of a memory node holds up to MaxRanges ranges, which start at
\* 1..MaxStart
MaxRanges == 2
MaxStart == 2

\* the name of the memory node: "memory", or "memory@" and a hex digit
MemoryName(unit) == IF unit = 0 THEN N_memory ELSE N_memory \o <<64, 48 + unit>>
RECURSIVE StartSeqs(_)
\* the lists of up to n starts of ranges
StartSeqs(n) ==
    IF n = 0 THEN {<<>>}
    ELSE {<<>>} \cup {<<a>> \o as : a \in 1..MaxStart, as \in StartSeqs(n - 1)}
RECURSIVE RangesOf(_, _)
\* the ranges of the starts: the i-th range of a reg has the size i
RangesOf(starts, i) ==
    IF Len(starts) = 0 THEN <<>>
    ELSE <<<<U64Of(starts[1]), U64Of(i)>>>> \o RangesOf(Tail(starts), i + 1)
RECURSIVE RangeCells(_)
\* the cells of ranges of 2 address cells and 1 size cell
RangeCells(ranges) ==
    IF Len(ranges) = 0 THEN <<>>
    ELSE ranges[1][1] \o Drop(ranges[1][2], 4) \o RangeCells(Tail(ranges))
MemoryBlob(unit, starts) ==
    DtbOf(DeclTree(NoDecl, <<>>, CpusOf(CpuOf(N_cpu0, 0)), <<>>,
                   TNode(MemoryName(unit),
                         TProp(DEVICE_TYPE, Str(N_memory))
                         \o TProp(REG, RangeCells(RangesOf(starts, 1))), <<>>)))
MemoryCorpus == {MemoryBlob(unit, starts) : unit \in 0..MaxStart, starts \in StartSeqs(MaxRanges)}

InitMemory == \E d \in MemoryCorpus \cup BaseCorpus : Start(d)

SpecMemory == InitMemory /\ [][Next]_vars

\* C23: a memory node with a unit-address and a reg of one range or more is
\* accepted exactly when its first range starts at the unit-address: the
\* later ranges may start anywhere, and all the ranges are kept.
C23_MemoryFirstRangeOnly ==
    pc = "done" =>
        \A unit \in 1..MaxStart : \A starts \in StartSeqs(MaxRanges) \ {<<>>} :
            dtb = MemoryBlob(unit, starts) =>
                IF starts[1] = unit
                THEN /\ Succeeded
                     /\ Len(Unwrap(result).val.root.memory) = 1
                     /\ Unwrap(result).val.root.memory[1].regions = RangesOf(starts, 1)
                ELSE Failed(<<"Node", "Memory", "Reg">>)

\* what the code does: every range has to start at the unit-address
C23_MemoryEveryRange ==
    pc = "done" =>
        \A unit \in 0..MaxStart : \A starts \in StartSeqs(MaxRanges) :
            dtb = MemoryBlob(unit, starts) =>
                IF unit = 0 \/ \A i \in 1..Len(starts) : starts[i] = unit
                THEN /\ Succeeded
                     /\ Len(Unwrap(result).val.root.memory) = 1
                     /\ Unwrap(result).val.root.memory[1].regions = RangesOf(starts, 1)
                ELSE Failed(<<"Node", "Memory", "Reg">>)


---------------------------------------------------------------------------
(* node/mod.rs: Node::find_str.  The names of the path are produced by a   *)
(* lazy iterator: a segment is converted, and its `unwrap()` runs, only    *)
(* when find asks for it.  The result is Ok(Option<node>) or a panic.      *)

RECURSIVE SelectNonEmpty(_)
\* .filter(|x| !x.is_empty())
SelectNonEmpty(segments) ==
    IF Len(segments) = 0 THEN <<>>
    ELSE IF Len(segments[1]) = 0 THEN SelectNonEmpty(Tail(segments))
    ELSE <<segments[1]>> \o SelectNonEmpty(Tail(segments))

RECURSIVE find_next(_, _, _)
\* Node::find with rest_path the iterator of find_str: `path_names` are the
\* segments not yet converted
find_next(kids, sub_path, path_names) ==
    Let([node \in {Map_get("name", kids, sub_path)} |->
    IF IsNone(node) THEN Ok(None)
    ELSE IF Len(path_names) = 0 THEN Ok(node)
    ELSE IF ~NameRef_try_from(path_names[1]).ok THEN PANIC("find_str: unwrap")
    ELSE find_next(Unwrap(node).children, NameRef_try_from(path_names[1]).val, Tail(path_names))])

\* Node::find_str, on the children map of the node
find_str(kids, path) ==
    Let([path_names \in {SelectNonEmpty(Split(path, 47))} |->
    IF Len(path_names) = 0 THEN Ok(None)
    ELSE IF ~NameRef_try_from(path_names[1]).ok THEN PANIC("find_str: unwrap")
    ELSE find_next(kids, NameRef_try_from(path_names[1]).val, Tail(path_names))])

---------------------------------------------------------------------------
(* node/chosen.rs: Chosen::from_node.  `kids` is the children map that     *)
(* root.find_str searches.                                                 *)

BOOTARGS == <<98, 111, 111, 116, 97, 114, 103, 115>>    \* "bootargs"
STDIN_PATH == <<115, 116, 100, 105, 110, 45, 112, 97, 116, 104>>    \* "stdin-path"

ChosenOf(boot_args, stdout, stdin, miscellaneous) ==
    [boot_args |-> boot_args, stdout |-> stdout, stdin |-> stdin,
     miscellaneous |-> miscellaneous]

\* rc_from_node of Chosen::from_node: [ret, self], self the properties left
rc_from_node(props, property_key, kids) ==
    Let([removed \in {Map_remove("bytes", props, property_key)} |->
    IF IsNone(removed.ret) THEN [ret |-> Ok(None), self |-> removed.self]
    ELSE Let([c_string \in {CStrTryFrom(Unwrap(removed.ret))} |->
         IF IsNone(c_string)
         THEN [ret |-> ErrWith(<<"StdoutPathInvalid">>, Unwrap(removed.ret)),
               self |-> removed.self]
         ELSE Let([found \in {find_str(kids, Unwrap(c_string))} |->
              IF ~found.ok THEN [ret |-> found, self |-> removed.self]
              ELSE IF IsNone(found.val)
              THEN [ret |-> ErrWith(<<"StdoutDanglingPath">>, Unwrap(c_string)),
                    self |-> removed.self]
              ELSE [ret |-> Ok(found.val), self |-> removed.self]])])])

\* Chosen::from_node
Chosen_from_node(chosen, kids) ==
    IF Len(chosen.children) # 0 THEN PANIC("unimplemented: children of chosen")
    ELSE
    Let([args \in {Map_remove("bytes", chosen.properties, BOOTARGS)} |->
    IF IsSome(args.ret) /\ IsNone(CStrTryFrom(Unwrap(args.ret)))
    THEN ErrWith(<<"BootArg">>, Unwrap(args.ret))
    ELSE
    Let([boot_args \in {IF IsNone(args.ret) THEN None
                        ELSE CStrTryFrom(Unwrap(args.ret))} |->
    Let([stdout \in {rc_from_node(args.self, STDOUT_PATH, kids)} |->
    IF ~stdout.ret.ok THEN stdout.ret
    ELSE
    Let([stdin \in {rc_from_node(stdout.self, STDIN_PATH, kids)} |->
    IF ~stdin.ret.ok THEN stdin.ret
    ELSE Ok(ChosenOf(boot_args, stdout.ret.val,
                     IF IsSome(stdin.ret.val) THEN stdin.ret.val ELSE stdout.ret.val,
                     stdin.self))])])])])


---------------------------------------------------------------------------
(* Specification SpecLookup: Node::find_str and Chosen::from_node are      *)
(* applied to paths over a small tree: /a, /soc and /soc/a.                *)

MaxParts == 4

\* a node without children; `tag` is its model, which tells the nodes apart
LeafNode(tag) == DeviceNodeOf(Map_new, None, Some(tag), None, None, <<"Ok">>, Map_new)

Name_a == NameRefOf(<<97>>, None)
Name_soc == NameRefOf(<<115, 111, 99>>, None)

LookupKids ==
    Map_from_iter("name",
        <<<<Name_soc, DeviceNodeOf(Map_from_iter("name", <<<<Name_a, LeafNode(<<115>>)>>>>),
                                   None, None, None, None, <<"Ok">>, Map_new)>>,
          <<Name_a, LeafNode(<<97>>)>>>>)

\* the pieces paths are made of: "/", "a", "soc", "!" and "@"
PathParts == {<<47>>, <<97>>, <<115, 111, 99>>, <<33>>, <<64>>}

RECURSIVE PathStrings(_)
\* the concatenations of up to n pieces
PathStrings(n) ==
    IF n = 0 THEN {<<>>}
    ELSE PathStrings(n - 1) \cup {p \o q : p \in PathStrings(n - 1), q \in PathParts}

\* a node-name of 32 characters
LongName == [i \in 1..(MAX_NODE_NAME_LENGTH + 1) |-> 120]

\* paths with the long name as a segment: first, or after a node, or
\* after a name that names no node
LongPaths ==
    {p \o <<47>> \o LongName \o q :
        p \in {<<>>, <<47, 97>>, <<47, 115, 111, 99>>, <<47, 98>>}, q \in {<<>>, <<47>>, <<47, 97>>}}

PathInputs == PathStrings(MaxParts) \cup LongPaths

\* a property value as the slice the builder stores: padded to whole cells
ValueSlice(b) == SliceOf(PadTo(b, 4), (4 - (Len(b) % 4)) % 4)

\* values of stdout-path and stdin-path: absent, "/a", "//soc/a/", "/b"
\* (names no node), and "/a" without its NUL
ChosenPaths ==
    {None, Some(Str(<<47, 97>>)), Some(Str(<<47, 47, 115, 111, 99, 47, 97, 47>>)),
     Some(Str(<<47, 98>>)), Some(<<47, 97>>)}

\* values of bootargs: absent, "x", and "x" without its NUL
ChosenArgs == {None, Some(Str(<<120>>)), Some(<<120>>)}

RECURSIVE PresentPairs(_)
\* the pairs whose value is present, as property pairs
PresentPairs(pairs) ==
    IF Len(pairs) = 0 THEN <<>>
    ELSE IF IsNone(pairs[1][2]) THEN PresentPairs(Tail(pairs))
    ELSE <<<<pairs[1][1], ValueSlice(Unwrap(pairs[1][2]))>>>> \o PresentPairs(Tail(pairs))

ChosenRaw(args, out, in) ==
    RawNodeOf(Map_new,
              Map_from_iter("bytes", PresentPairs(<<<<BOOTARGS, args>>, <<STDOUT_PATH, out>>,
                                                    <<STDIN_PATH, in>>>>)))

InitLookup ==
    \/ \E path \in PathInputs : StartCall("find_str", <<"find_str", LookupKids, path>>)
    \/ \E args \in ChosenArgs, out \in ChosenPaths, in \in ChosenPaths :
          StartCall("from_node", <<"from_node", ChosenRaw(args, out, in), LookupKids>>)

CallFindStr == pc = "find_str" /\ ReturnCall(find_str(dtb[2], dtb[3]))

CallChosenFromNode == pc = "from_node" /\ ReturnCall(Chosen_from_node(dtb[2], dtb[3]))

NextLookup == CallFindStr \/ CallChosenFromNode

SpecLookup == InitLookup /\ [][NextLookup]_vars

\* the non-empty segments of the path of a find_str call
SegmentsOf(path) == SelectNonEmpty(Split(path, 47))

RECURSIVE JoinSlash(_)
\* the segments, each after one slash
JoinSlash(segments) ==
    IF Len(segments) = 0 THEN <<>>
    ELSE <<47>> \o segments[1] \o JoinSlash(Tail(segments))

AllValidNames(segments) == \A i \in 1..Len(segments) : NameRef_try_from(segments[i]).ok

\* the node the valid names of a path lead to
Descend(kids, segments) ==
    IF Len(segments) = 0 \/ ~AllValidNames(segments) THEN None
    ELSE find(kids, NameRef_try_from(segments[1]).val,
              [i \in 1..(Len(segments) - 1) |-> NameRef_try_from(segments[i + 1]).val])

\* C25: find_str never panics; a path with a segment that is not a valid
\* Name, or that names no child, gives None, and otherwise the node the
\* non-empty segments lead to, whatever the slashes around them.
C25_FindStrTotal ==
    (Returned /\ dtb[1] = "find_str") =>
        /\ ~Panicked
        /\ Unwrap(result) = Ok(Descend(dtb[2], SegmentsOf(dtb[3])))

\* the first segment that is not a valid name, 0 if none
FirstInvalid(segments) ==
    IF AllValidNames(segments) THEN 0
    ELSE CHOOSE i \in 1..Len(segments) :
            /\ ~NameRef_try_from(segments[i]).ok
            /\ AllValidNames(Take(segments, i - 1))

\* What the code does: find_str panics exactly when the segments before the
\* first invalid one all name nodes (always, when the first segment is the
\* invalid one); in every other case it returns the node of the path, or
\* None, and slashes make no difference.
C25_FindStrPanicsAtInvalid ==
    (Returned /\ dtb[1] = "find_str") =>
        Let([segments \in {SegmentsOf(dtb[3])} |->
        Let([bad \in {FirstInvalid(segments)} |->
        /\ Panicked <=> (bad # 0 /\ (bad = 1 \/ IsSome(Descend(dtb[2], Take(segments, bad - 1)))))
        /\ ~Panicked => Unwrap(result) = Ok(IF bad = 0 THEN Descend(dtb[2], segments) ELSE None)
        /\ Unwrap(result) = find_str(dtb[2], JoinSlash(segments))])])

\* the state of a path property of the chosen node of a from_node call
PathState(key) ==
    Let([value \in {Map_get("bytes", dtb[2].properties, key)} |->
    IF IsNone(value) THEN "absent"
    ELSE IF IsNone(CStrTryFrom(Unwrap(value))) THEN "malformed"
    ELSE IF IsNone(Descend(dtb[3], SegmentsOf(Unwrap(CStrTryFrom(Unwrap(value)))))) THEN "dangling"
    ELSE "found"])

ArgsFine ==
    Let([value \in {Map_get("bytes", dtb[2].properties, BOOTARGS)} |->
    IsNone(value) \/ IsSome(CStrTryFrom(Unwrap(value)))])

\* C24: in /chosen the error names the property that failed, stdout-path
\* first; when stdin-path is absent, stdin is what stdout is.
C24_ChosenErrorNamesProperty ==
    (Returned /\ dtb[1] = "from_node" /\ ArgsFine) =>
        Let([out \in {PathState(STDOUT_PATH)} |->
        Let([in \in {PathState(STDIN_PATH)} |->
        IF out = "malformed" THEN Failed(<<"StdoutPathInvalid">>)
        ELSE IF out = "dangling" THEN Failed(<<"StdoutDanglingPath">>)
        ELSE IF in = "malformed" THEN Failed(<<"StdinPathInvalid">>)
        ELSE IF in = "dangling" THEN Failed(<<"StdinDanglingPath">>)
        ELSE /\ Succeeded
             /\ in = "absent" => Unwrap(result).val.stdin = Unwrap(result).val.stdout
             /\ out = "absent" => IsNone(Unwrap(result).val.stdout)])])

\* What the code does: a stdin-path that fails is reported with the errors
\* of stdout-path; everything else is as C24 says.
C24_ChosenStdinReportedAsStdout ==
    (Returned /\ dtb[1] = "from_node" /\ ArgsFine) =>
        Let([out \in {PathState(STDOUT_PATH)} |->
        Let([in \in {PathState(STDIN_PATH)} |->
        IF out = "malformed" THEN Failed(<<"StdoutPathInvalid">>)
        ELSE IF out = "dangling" THEN Failed(<<"StdoutDanglingPath">>)
        ELSE IF in = "malformed" THEN Failed(<<"StdoutPathInvalid">>)
        ELSE IF in = "dangling" THEN Failed(<<"StdoutDanglingPath">>)
        ELSE /\ Succeeded
             /\ in = "absent" => Unwrap(result).val.stdin = Unwrap(result).val.stdout
             /\ out = "absent" => IsNone(Unwrap(result).val.stdout)
             /\ in = "found" =>
                  Unwrap(result).val.stdin =
                      Descend(dtb[3], SegmentsOf(Unwrap(CStrTryFrom(Unwrap(
                          Map_get("bytes", dtb[2].properties, STDIN_PATH))))))])])


---------------------------------------------------------------------------
(* dtb.rs: the token loop of from_bytes as a function of the remaining     *)
(* stream and the builder state, to compare the outcomes of two blobs.     *)
(* The End arm reads boot_cpuid_phys and the versions from `header`.       *)

BuilderOf(props, kids, open, tree) ==
    [properties |-> props, children |-> kids, names |-> open, device_tree |-> tree]

\* the builder state before the first token
EmptyBuilder == BuilderOf(<<>>, << <<>> >>, <<>>, Err(<<"EoF">>))

RECURSIVE TokenLoop(_, _, _)
\* `for token in Token::iterate_bytes(dt_struct, dt_strings)` and the return
\* of device_tree after it: what from_bytes returns
TokenLoop(stream, strings, b) ==
    IF is_empty(stream) THEN b.device_tree
    ELSE
    Let([token \in {consume_token(stream, strings)} |->
    IF ~token.ret.ok THEN MapErr(token.ret, "Token")
    ELSE IF token.ret.val.kind = "BeginNode"
    THEN TokenLoop(token.self, strings,
                   BuilderOf(Append(b.properties, Map_new), Append(b.children, <<>>),
                             Append(b.names, token.ret.val.name), b.device_tree))
    ELSE IF token.ret.val.kind = "EndNode"
    THEN IF Len(b.names) = 0 THEN Err(<<"TooManyEnds">>)
         ELSE IF Len(b.children) = 0 \/ Len(b.properties) = 0
         THEN PANIC("from_bytes: Properties, children, and names should all be in sync")
         ELSE IF Len(b.children) = 1 THEN Err(<<"TooManyEnds">>)
         ELSE Let([node \in {RawNode_new(b.children[Len(b.children)],
                                         b.properties[Len(b.properties)])} |->
              Let([below \in {Len(b.children) - 1} |->
              TokenLoop(token.self, strings,
                        BuilderOf(Take(b.properties, Len(b.properties) - 1),
                                  [Take(b.children, below) EXCEPT
                                      ![below] = Append(@, <<b.names[Len(b.names)], node>>)],
                                  Take(b.names, Len(b.names) - 1), b.device_tree))])])
    ELSE IF token.ret.val.kind = "Prop"
    THEN IF Len(b.properties) = 0 THEN Err(<<"InvalidProp">>)
         ELSE Let([inserted \in {Map_insert("bytes", b.properties[Len(b.properties)],
                                            token.ret.val.name, token.ret.val.value)} |->
              IF IsSome(inserted.ret) THEN Err(<<"Parsing">>)
              ELSE TokenLoop(token.self, strings,
                             BuilderOf([b.properties EXCEPT ![Len(b.properties)] = inserted.self],
                                       b.children, b.names, b.device_tree))])
    ELSE IF token.ret.val.kind = "Nop"
    THEN TokenLoop(token.self, strings, b)
    ELSE IF b.device_tree.ok THEN Err(<<"TooManyEnds">>)
    ELSE IF Len(b.children) # 1 THEN ErrWith(<<"BadDepth">>, Len(b.children))
    ELSE Let([made \in {EndOfTree(b.children[1])} |->
         IF ~made.ok THEN made
         ELSE TokenLoop(token.self, strings,
                        BuilderOf(b.properties, <<>>, b.names, made))])])

\* DeviceTree::from_bytes
from_bytes(d) ==
    Let([parsed \in {ParseHeader(d)} |->
    IF ~parsed.ok THEN parsed
    ELSE TokenLoop(parsed.val.dt_struct, parsed.val.dt_strings, EmptyBuilder)])

---------------------------------------------------------------------------
(* Specification SpecNops: from_bytes on the tree that resolves with up to *)
(* MaxNops Nop tokens put between its tokens, and on the short token       *)
(* sequences, which hold Nop tokens too.                                   *)

MaxNops == 2

\* the tokens of GoodTree, one by one
GoodTokens ==
    <<TBegin(N_root), TProp(MODEL, Str(S_m)), TProp(COMPATIBLE, Str(S_xy)),
      TBegin(N_cpus), TProp(ADDRESS_CELLS, ToU32(1)), TProp(SIZE_CELLS, ToU32(0)),
      TBegin(N_cpu0), TProp(DEVICE_TYPE, Str(STR_cpu)), TProp(REG, ToU32(0)), TEndNode,
      TEndNode,
      TBegin(N_reserved), TProp(RANGES, <<>>), TEndNode,
      TEndNode, TEnd>>

\* the ways to put up to n Nop tokens before tokens: sets of the positions,
\* a position taken twice for two Nop tokens in a row
RECURSIVE NopPlaces(_)
NopPlaces(n) ==
    IF n = 0 THEN {<<>>}
    ELSE NopPlaces(n - 1) \cup
         {Append(places, at) : places \in NopPlaces(n - 1), at \in 1..Len(GoodTokens)}

CountAt(places, at) == Cardinality({i \in 1..Len(places) : places[i] = at})

RECURSIVE Repeat(_, _)
Repeat(token, n) == IF n = 0 THEN <<>> ELSE token \o Repeat(token, n - 1)

\* GoodTree with the Nop tokens of `places` before the tokens they name
WithNops(places) ==
    Concat([i \in 1..Len(GoodTokens) |-> Repeat(TNop, CountAt(places, i)) \o GoodTokens[i]])

NopCorpus == {DtbOf(WithNops(places)) : places \in NopPlaces(MaxNops)}

InitNops == \E d \in NopCorpus \cup TokenCorpus \cup BaseCorpus : Start(d)

SpecNops == InitNops /\ [][Next]_vars

RECURSIVE StripNops(_, _)
\* the bytes of a structure block without the Nop tokens that come before
\* its first End token; from a token that cannot be decoded on, the bytes
\* are kept as they are
StripNops(stream, strings) ==
    IF is_empty(stream) THEN <<>>
    ELSE
    Let([token \in {consume_token(stream, strings)} |->
    IF ~token.ret.ok \/ token.ret.val.kind = "End" THEN SliceBytes(stream)
    ELSE IF token.ret.val.kind = "Nop" THEN StripNops(token.self, strings)
    ELSE Take(SliceBytes(stream), Len(SliceBytes(stream)) - Len(SliceBytes(token.self)))
             \o StripNops(token.self, strings)])

\* the blob of the state without its Nop tokens
Stripped ==
    DtbOf(StripNops(ParseHeader(dtb).val.dt_struct, ParseHeader(dtb).val.dt_strings))

HasNops == Len(Stripped) < Len(dtb)

\* C26: a Nop token leaves the frame stacks and the pending result as they
\* are, and a blob returns what the blob without its Nop tokens returns, tree
\* or error.
C26_NopsChangeNothing ==
    /\ [][OnNop => UNCHANGED <<names, properties, children, device_tree, result>>]_vars
    /\ [](Returned /\ ParseHeader(dtb).ok =>
            /\ ParseHeader(Stripped).ok
            /\ ParseHeader(Stripped).val.header = header
            /\ Unwrap(result) = from_bytes(Stripped))

\* a tree was returned for a blob with two Nop tokens
C26_Witness ==
    /\ Succeeded
    /\ CountOf(seen, "Nop") = MaxNops
    /\ HasNops
    /\ Unwrap(result) = from_bytes(Stripped)

\* the token loop as a function agrees with the token loop step by step: a
\* step of the loop does not change what the rest of the loop returns
C26_LoopAgrees ==
    [][pc = "tokens" =>
          IF pc' = "done"
          THEN Unwrap(result') =
                   TokenLoop(bytes, dt_strings,
                             BuilderOf(properties, children, names, device_tree))
          ELSE TokenLoop(bytes', dt_strings',
                         BuilderOf(properties', children', names', device_tree')) =
                   TokenLoop(bytes, dt_strings,
                             BuilderOf(properties, children, names, device_tree))]_vars


---------------------------------------------------------------------------
(* Specification SpecDecode: from_bytes on well-formed blobs whose         *)
(* structure block is any short sequence of cells: token words, lengths,   *)
(* names with and without their NUL, and words that are no token.          *)

MaxStreamCells == 3

StreamCells ==
    {BEGIN_NODE, END_NODE, PROP, NOP, END, Zero32, <<0, 0, 0, 5>>,
     <<97, 0, 0, 0>>, <<97, 98, 99, 100>>, <<97, 0, 0, 1>>}

RECURSIVE CellStreams(_)
CellStreams(n) ==
    IF n = 0 THEN {<<>>}
    ELSE CellStreams(n - 1) \cup {s \o c : s \in CellStreams(n - 1), c \in StreamCells}

StreamCorpus == {DtbOf(s) : s \in CellStreams(MaxStreamCells)}

InitDecode == \E d \in StreamCorpus \cup PadCorpus \cup BaseCorpus : Start(d)

SpecDecode == InitDecode /\ [][Next]_vars

\* size_dt_struct / 4 of the blob of the state
StructCells == len_u32s(ParseHeader(dtb).val.dt_struct)

\* C27: every call of consume_token either fails, and from_bytes ends, or
\* leaves fewer cells in the stream than it found; the tokens decoded never
\* outnumber the cells of the structure block, and the cells that were
\* removed.
C27_TokensAdvance ==
    /\ [][(pc = "tokens" /\ ~is_empty(bytes)) =>
             /\ bytes' = NextToken.self
             /\ NextToken.ret.ok => len_u32s(bytes') < len_u32s(bytes)
             /\ ~NextToken.ret.ok => (pc' = "done" /\ ~Unwrap(result').ok)]_vars
    /\ []((pc \in {"tokens", "done"} /\ ParseHeader(dtb).ok) =>
             /\ Len(seen) <= StructCells - len_u32s(bytes)
             /\ Len(seen) <= StructCells)

\* three tokens of one cell each were decoded from a block of three cells
C27_Witness ==
    /\ pc = "done"
    /\ ParseHeader(dtb).ok
    /\ is_empty(bytes)
    /\ StructCells = MaxStreamCells
    /\ Len(seen) = StructCells


---------------------------------------------------------------------------
(* The frame stacks of the token loop, under SpecTokens *)

\* an EndNode token came when no node was open
EndNodeUnopened == TokenIs("EndNode") /\ Len(names) = 0

\* C28: in the token loop names and properties have the same length, and
\* children has one frame more until an End token made the tree and the same
\* length after it; an EndNode token with no open node fails with
\* TooManyEnds, and from_bytes never panics on a pop of children or of
\* properties.
C28_StacksInStep ==
    /\ [](pc = "tokens" =>
             /\ Len(names) = Len(properties)
             /\ Len(children) = Len(names) + (IF device_tree.ok THEN 0 ELSE 1))
    /\ [][EndNodeUnopened => Failed(<<"TooManyEnds">>)']_vars
    /\ [](Returned =>
             Unwrap(result) #
                 PANIC("from_bytes: Properties, children, and names should all be in sync"))

\* an EndNode token after the End of a tree, with no open node
C28_Witness ==
    /\ Failed(<<"TooManyEnds">>)
    /\ device_tree.ok
    /\ Len(names) = 0 /\ Len(properties) = 0 /\ Len(children) = 0
    /\ seen[Len(seen)] = "EndNode"
    /\ CountOf(seen, "End") = 1


---------------------------------------------------------------------------
(* Specification SpecSiblings: from_bytes on well-formed blobs whose tree  *)
(* resolves and holds up to MaxSiblings device nodes next to each other,   *)
(* under the root or under /soc, with names that may repeat.               *)

MaxSiblings == 2

N_a_at0 == <<97, 64, 48>>    \* "a@0"
SiblingNames == {N_a, N_b, N_a_at0}

RECURSIVE NameSeqs(_)
\* the sequences of 1..n names
NameSeqs(n) ==
    IF n = 0 THEN {}
    ELSE {<<name>> : name \in SiblingNames} \cup NameSeqs(n - 1)
         \cup {Append(s, name) : s \in NameSeqs(n - 1), name \in SiblingNames}

\* the nodes of the names, the i-th with the property u = i
SiblingNodes(node_names) ==
    Concat([i \in 1..Len(node_names) |-> TNode(node_names[i], TProp(K_u, ToU32(i)), <<>>)])

SiblingBlob(below_soc, node_names) ==
    DtbOf(TreeOf(<<>>, IF below_soc THEN TNode(N_soc, <<>>, SiblingNodes(node_names))
                       ELSE SiblingNodes(node_names)) \o TEnd)

Repeats(node_names) ==
    \E i, j \in 1..Len(node_names) : i < j /\ node_names[i] = node_names[j]

SiblingCorpus ==
    {SiblingBlob(below_soc, s) : below_soc \in BOOLEAN, s \in NameSeqs(MaxSiblings)}
\* the blobs in which two siblings have one name
RepeatCorpus ==
    {SiblingBlob(below_soc, s) :
        below_soc \in BOOLEAN, s \in {t \in NameSeqs(MaxSiblings) : Repeats(t)}}

InitSiblings == \E d \in SiblingCorpus \cup BaseCorpus : Start(d)

SpecSiblings == InitSiblings /\ [][Next]_vars

\* each key is less than the next
StrictKeys(kind, contents) ==
    \A i \in 1..(Len(contents) - 1) : KeyLess(kind, contents[i][1], contents[i + 1][1])

\* no key is greater than the next
SortedKeys(kind, contents) ==
    \A i \in 1..(Len(contents) - 1) : ~KeyLess(kind, contents[i + 1][1], contents[i][1])

\* the children maps of the nodes that were closed and wait in a frame
FrameMaps ==
    {children[i][j][2].children : <<i, j>> \in
        UNION {{<<i, j>> : j \in 1..Len(children[i])} : i \in 1..Len(children)}}

\* the children maps of the tree that was returned: of the root and of its
\* children
TreeMaps ==
    IF ~Succeeded THEN {}
    ELSE {Unwrap(result).val.root.children}
         \cup {Unwrap(result).val.root.children[i][2].children :
                  i \in 1..Len(Unwrap(result).val.root.children)}

\* C29: every Map of the parse holds its keys in strictly increasing order,
\* so no key twice: the property maps of the open nodes, the children maps
\* of the closed nodes, and the children maps of the tree that is returned.
C29_MapKeysUnique ==
    /\ \A i \in 1..Len(properties) : StrictKeys("bytes", properties[i])
    /\ \A contents \in FrameMaps : StrictKeys("name", contents)
    /\ \A contents \in TreeMaps : StrictKeys("name", contents)

\* What the code does: the maps are sorted, and a children map holds a name
\* twice exactly when two siblings of the blob have that name; from_bytes
\* then returns a tree that holds both.
C29_MapsSortedOnly ==
    /\ \A i \in 1..Len(properties) : StrictKeys("bytes", properties[i])
    /\ \A contents \in FrameMaps \cup TreeMaps : SortedKeys("name", contents)
    /\ dtb \notin RepeatCorpus =>
          \A contents \in FrameMaps \cup TreeMaps : StrictKeys("name", contents)
    /\ (dtb \in RepeatCorpus /\ pc = "done") =>
          /\ Succeeded
          /\ \E contents \in TreeMaps : ~StrictKeys("name", contents)

===========================================================================
